---- MODULE Spec2Model ----
(***************************************************************************)
(* Verification model of the OpenZKP arithmetic core:                      *)
(*   - U256 (algebra/u256/src/u256.rs): four-limb unsigned integers        *)
(*   - Jacobian (algebra/elliptic-curve/src/jacobian.rs): curve points     *)
(* The limb width is scaled from 64 bits to LimbBits bits, so that a U256  *)
(* has 4 * LimbBits bits; every width in the code (64, 128, 192, 256) is   *)
(* scaled with it.  The prime field is scaled to a small prime.            *)
(***************************************************************************)
EXTENDS Integers, Sequences, FiniteSets, TLC

VARIABLES
    pc,     \* position of the running call
    ua,     \* first U256 operand (self)
    ub,     \* second U256 operand (rhs)
    uout,   \* value returned by the U256 call
    dstr,   \* decimal string handed to from_decimal_str (sequence of code points)
    dout,   \* Result<U256, ParseError> of from_decimal_str, or a panic
    ir,     \* invmod256: the running approximation r
    jp,     \* Jacobian accumulator (self)
    jq,     \* Jacobian operand (rhs)
    jold,   \* the accumulator before the last curve operation
    ja,     \* Affine operand (rhs of the mixed operations, p of mul)
    mi,     \* Jacobian::mul: loop counter i of (0..scalar.msb()).rev()
    um,     \* third U256 operand (modulus)
    un,     \* u64 or usize operand (short divisor, shift amount, exponent)
    buf,    \* byte buffer of from_bytes_be / to_bytes_be
    pw,     \* U256::pow: its locals and the number of iterations made
    claim,  \* pedersen_merkle Claim {path_length, leaf, root}
    witness, \* pedersen_merkle Witness {directions, path}
    tt      \* get_trace_table: its locals, the table and the rows written so far

vars == <<pc, ua, ub, uout, dstr, dout, ir, jp, jq, jold, ja, mi, um, un, buf, pw,
          claim, witness, tt>>

----------------------------------------------------------------------------
(* Bounds of the model *)

\* width of one limb (u64 in the code), in bits
LimbBits == 4

\* longest run of leading zeros put in front of a decimal string
MaxLeadingZeros == 1

\* scalars 0..MaxScalar are all tried by Jacobian::mul
MaxScalar == 24

\* which of the small prime fields stands in for the STARK field
FieldIdx == 1

\* shift amounts run from 0 to MaxOverShift past the width of a U256
MaxOverShift == 3

----------------------------------------------------------------------------
(* 64-bit primitives (utils.rs), scaled to LimbBits *)

Base == 2 ^ LimbBits

LimbMax == Base - 1

Limb == 0 .. LimbMax

\* wrapping arithmetic of a primitive unsigned type of the given modulus
WrapMod(v, m) == ((v % m) + m) % m

\* adc(a, b, carry) = a + b + carry as (low limb, carry)
adc(x, y, carry) ==
    LET t == x + y + carry IN <<t % Base, t \div Base>>

\* sbb(a, b, borrow) = a - b - borrow as (low limb, borrow)
sbb(x, y, borrow) ==
    LET t == x - y - borrow IN <<WrapMod(t, Base), IF t < 0 THEN 1 ELSE 0>>

\* mac(acc, a, b, carry) = acc + a * b + carry as (low limb, high limb)
mac(acc, x, y, carry) ==
    LET t == acc + x * y + carry IN <<t % Base, t \div Base>>

----------------------------------------------------------------------------
(* U256 *)

from_limbs(l0, l1, l2, l3) == [c0 |-> l0, c1 |-> l1, c2 |-> l2, c3 |-> l3]

ZERO == from_limbs(0, 0, 0, 0)

ONE == from_limbs(1, 0, 0, 0)

MAX == from_limbs(LimbMax, LimbMax, LimbMax, LimbMax)

\* impl From<u64> for U256
from_u64(n) == from_limbs(n, 0, 0, 0)

\* impl From<u128> for U256
from_u128(n) == from_limbs(n % Base, n \div Base, 0, 0)

is_zero(x) == x = ZERO

is_even(x) == x.c0 % 2 = 0

is_odd(x) == x.c0 % 2 = 1

as_u128(x) == x.c0 + x.c1 * Base

\* impl Ord for U256: compares c3, then c2, c1, c0
cmp(x, y) ==
    IF x.c3 # y.c3 THEN (IF x.c3 < y.c3 THEN "Less" ELSE "Greater")
    ELSE IF x.c2 # y.c2 THEN (IF x.c2 < y.c2 THEN "Less" ELSE "Greater")
    ELSE IF x.c1 # y.c1 THEN (IF x.c1 < y.c1 THEN "Less" ELSE "Greater")
    ELSE IF x.c0 # y.c0 THEN (IF x.c0 < y.c0 THEN "Less" ELSE "Greater")
    ELSE "Equal"

lt(x, y) == cmp(x, y) = "Less"

gt(x, y) == cmp(x, y) = "Greater"

\* a plausible slip: the carry out of c1 is not taken into c2
add_assign_lost_carry(x, rhs) ==
    LET s0 == adc(x.c0, rhs.c0, 0)
        s1 == adc(x.c1, rhs.c1, s0[2])
        s2 == adc(x.c2, rhs.c2, 0)
        s3 == adc(x.c3, rhs.c3, s2[2])
    IN from_limbs(s0[1], s1[1], s2[1], s3[1])

\* impl AddAssign<&U256> for U256
add_assign(x, rhs) ==
    LET s0 == adc(x.c0, rhs.c0, 0)
        s1 == adc(x.c1, rhs.c1, s0[2])
        s2 == adc(x.c2, rhs.c2, s1[2])
        s3 == adc(x.c3, rhs.c3, s2[2])
    IN from_limbs(s0[1], s1[1], s2[1], s3[1])

\* impl SubAssign<&U256> for U256
sub_assign(x, rhs) ==
    LET s0 == sbb(x.c0, rhs.c0, 0)
        s1 == sbb(x.c1, rhs.c1, s0[2])
        s2 == sbb(x.c2, rhs.c2, s1[2])
        s3 == sbb(x.c3, rhs.c3, s2[2])
    IN from_limbs(s0[1], s1[1], s2[1], s3[1])

\* impl MulAssign<&U256> for U256: the low 256 bits of the product
mul_assign(x, rhs) ==
    LET a0 == mac(0, x.c0, rhs.c0, 0)
        a1 == mac(0, x.c0, rhs.c1, a0[2])
        a2 == mac(0, x.c0, rhs.c2, a1[2])
        a3 == mac(0, x.c0, rhs.c3, a2[2])
        b1 == mac(a1[1], x.c1, rhs.c0, 0)
        b2 == mac(a2[1], x.c1, rhs.c1, b1[2])
        b3 == mac(a3[1], x.c1, rhs.c2, b2[2])
        d2 == mac(b2[1], x.c2, rhs.c0, 0)
        d3 == mac(b3[1], x.c2, rhs.c1, d2[2])
        e3 == mac(d3[1], x.c3, rhs.c0, 0)
    IN from_limbs(a0[1], b1[1], d2[1], e3[1])

\* Option<T>
None == [tag |-> "None"]

Some(v) == [tag |-> "Some", val |-> v]

\* the integer a limb array stands for, least significant limb first
RECURSIVE LimbsVal(_)
LimbsVal(limbs) ==
    IF limbs = <<>> THEN 0 ELSE Head(limbs) + Base * LimbsVal(Tail(limbs))

\* remainder of the limbs i..Len(numerator) (as a number) by d
RECURSIVE RemFrom(_, _, _)
RemFrom(numerator, i, d) ==
    IF i > Len(numerator) THEN 0
    ELSE (RemFrom(numerator, i + 1, d) * Base + numerator[i]) % d

\* quotient limb i of numerator by d
QuotLimb(numerator, i, d) ==
    (RemFrom(numerator, i + 1, d) * Base + numerator[i]) \div d

\* division::divrem_nbym: in place, the remainder in numerator[..n] and the
\* quotient in numerator[n..], n the length of the divisor
divrem_nbym(numerator, divisor) ==
    LET n == Len(divisor)
        d == LimbsVal(divisor)
        rem == RemFrom(numerator, 1, d)
    IN [i \in 1 .. Len(numerator) |->
            IF i <= n THEN (rem \div (Base ^ (i - 1))) % Base
            ELSE QuotLimb(numerator, i - n, d)]

\* division::divrem_nby1: the quotient in place, the remainder returned
divrem_nby1(numerator, divisor) ==
    [numerator |-> [i \in 1 .. Len(numerator) |-> QuotLimb(numerator, i, divisor)],
     remainder |-> RemFrom(numerator, 1, divisor)]

\* a plausible slip: the n-by-3 path reads the quotient one limb too low
divrem_shifted(x, rhs) ==
    LET numerator == <<x.c0, x.c1, x.c2, x.c3, 0>> IN
    IF rhs.c3 > 0 THEN
        LET nm == divrem_nbym(numerator, <<rhs.c0, rhs.c1, rhs.c2, rhs.c3>>)
        IN Some(<<from_limbs(nm[5], 0, 0, 0), from_limbs(nm[1], nm[2], nm[3], nm[4])>>)
    ELSE IF rhs.c2 > 0 THEN
        LET nm == divrem_nbym(numerator, <<rhs.c0, rhs.c1, rhs.c2>>)
        IN Some(<<from_limbs(nm[3], nm[4], 0, 0), from_limbs(nm[1], nm[2], nm[3], 0)>>)
    ELSE IF rhs.c1 > 0 THEN
        LET nm == divrem_nbym(numerator, <<rhs.c0, rhs.c1>>)
        IN Some(<<from_limbs(nm[3], nm[4], nm[5], 0), from_limbs(nm[1], nm[2], 0, 0)>>)
    ELSE IF rhs.c0 > 0 THEN
        LET dr == divrem_nby1(numerator, rhs.c0)
            nm == dr.numerator
        IN Some(<<from_limbs(nm[1], nm[2], nm[3], nm[4]), from_limbs(dr.remainder, 0, 0, 0)>>)
    ELSE None

\* U256::divrem: Option<(quotient, remainder)>
divrem(x, rhs) ==
    LET numerator == <<x.c0, x.c1, x.c2, x.c3, 0>> IN
    IF rhs.c3 > 0 THEN
        LET nm == divrem_nbym(numerator, <<rhs.c0, rhs.c1, rhs.c2, rhs.c3>>)
        IN Some(<<from_limbs(nm[5], 0, 0, 0), from_limbs(nm[1], nm[2], nm[3], nm[4])>>)
    ELSE IF rhs.c2 > 0 THEN
        LET nm == divrem_nbym(numerator, <<rhs.c0, rhs.c1, rhs.c2>>)
        IN Some(<<from_limbs(nm[4], nm[5], 0, 0), from_limbs(nm[1], nm[2], nm[3], 0)>>)
    ELSE IF rhs.c1 > 0 THEN
        LET nm == divrem_nbym(numerator, <<rhs.c0, rhs.c1>>)
        IN Some(<<from_limbs(nm[3], nm[4], nm[5], 0), from_limbs(nm[1], nm[2], 0, 0)>>)
    ELSE IF rhs.c0 > 0 THEN
        LET dr == divrem_nby1(numerator, rhs.c0)
            nm == dr.numerator
        IN Some(<<from_limbs(nm[1], nm[2], nm[3], nm[4]), from_limbs(dr.remainder, 0, 0, 0)>>)
    ELSE None

\* impl DivAssign<&U256> for U256 (unwraps: panics on a zero divisor)
div_assign(x, rhs) == divrem(x, rhs).val[1]

\* impl RemAssign<&U256> for U256 (unwraps: panics on a zero divisor)
rem_assign(x, rhs) == divrem(x, rhs).val[2]

----------------------------------------------------------------------------
(* Inputs *)

\* the integer a U256 stands for
Val(x) == x.c0 + Base * (x.c1 + Base * (x.c2 + Base * x.c3))

\* the U256 of an integer in 0 .. 2^256 - 1
U256Of(v) ==
    from_limbs(v % Base, (v \div Base) % Base,
               (v \div (Base * Base)) % Base, (v \div (Base * Base * Base)) % Base)

\* limbs at both ends of the range
EdgeLimb == {v \in Limb : v <= 1 \/ v >= LimbMax - 1}

\* the U256 values whose limbs are edge limbs: every pattern of zero,
\* small, large and full limbs
EdgeU256 == {from_limbs(l0, l1, l2, l3) : l0 \in EdgeLimb, l1 \in EdgeLimb,
                                           l2 \in EdgeLimb, l3 \in EdgeLimb}

Idle == [tag |-> "Idle"]

IdlePoint == [x |-> 0, y |-> 0, z |-> 0]

----------------------------------------------------------------------------
(* Specification of U256::divrem *)

InitDivrem ==
    /\ pc = "divrem"
    /\ ua \in EdgeU256
    /\ ub \in EdgeU256
    /\ uout = Idle
    /\ dstr = <<>>
    /\ dout = Idle
    /\ ir = ZERO
    /\ jp = IdlePoint
    /\ jq = IdlePoint
    /\ jold = IdlePoint
    /\ ja = Idle
    /\ mi = 0
    /\ um = ZERO
    /\ un = 0
    /\ buf = <<>>
    /\ pw = Idle
    /\ claim = Idle
    /\ witness = Idle
    /\ tt = Idle

Divrem ==
    /\ pc = "divrem"
    /\ uout' = divrem(ua, ub)
    /\ pc' = "divrem_ret"
    /\ UNCHANGED <<claim, witness, tt, um, un, buf, pw, ua, ub, dstr, dout, ir, jp, jq, jold, ja, mi>>

NextDivrem == Divrem

SpecDivrem == InitDivrem /\ [][NextDivrem]_vars

\* C1: divrem(a, b) is None exactly when b = 0; otherwise it is Some((q, r))
\* with r < b and q * b + r = a, on every one of the four divisor-size paths.
C1_Divrem ==
    pc = "divrem_ret" =>
        /\ (uout.tag = "None") <=> (ub = ZERO)
        /\ uout.tag = "Some" =>
            /\ lt(uout.val[2], ub)
            /\ Val(uout.val[2]) < Val(ub)
            /\ Val(uout.val[1]) <= Val(ua) \div Val(ub)
            /\ Val(uout.val[1]) * Val(ub) + Val(uout.val[2]) = Val(ua)
            /\ add_assign(mul_assign(uout.val[1], ub), uout.val[2]) = ua

\* a division on the n-by-3 path with a two-limb quotient and a remainder
C1_Witness ==
    /\ pc = "divrem_ret"
    /\ ub.c3 = 0
    /\ ub.c2 > 0
    /\ uout.tag = "Some"
    /\ uout.val[1].c1 > 0
    /\ uout.val[2] # ZERO

----------------------------------------------------------------------------
(* Decimal strings.  A string is the sequence of its code points; Rust      *)
(* stores it as UTF-8 bytes and slices it by byte index.                    *)

\* Result<U256, ParseError>, or the panic of a failed slice
Ok(v) == [tag |-> "Ok", val |-> v]

Err(e) == [tag |-> "Err", err |-> e]

Panic == [tag |-> "Panic"]

\* UTF-8 encoding of a code point below U+0800
utf8(c) == IF c < 128 THEN <<c>> ELSE <<192 + (c \div 64), 128 + (c % 64)>>

\* str::as_bytes
RECURSIVE as_bytes(_)
as_bytes(s) == IF s = <<>> THEN <<>> ELSE utf8(Head(s)) \o as_bytes(Tail(s))

\* str::is_char_boundary, index counted from 0
is_char_boundary(bytes, idx) ==
    \/ idx = 0
    \/ idx = Len(bytes)
    \/ idx < Len(bytes) /\ (bytes[idx + 1] < 128 \/ bytes[idx + 1] >= 192)

\* u64::from_str_radix(src, 10) of a one-byte string
from_str_radix(src) ==
    IF src[1] >= 48 /\ src[1] <= 57 THEN Ok(src[1] - 48) ELSE Err("InvalidDigit")

\* ceil(2^256 / 10)
max10 == U256Of((2 ^ (4 * LimbBits) + 9) \div 10)

\* the body of `for (i, _c) in s.chars().enumerate()`, from iteration i on
RECURSIVE from_decimal_loop(_, _, _)
from_decimal_loop(s, i, result) ==
    IF i = Len(s) THEN Ok(result)
    ELSE IF gt(result, max10) THEN Err("Overflow")
    ELSE
        LET times10 == mul_assign(result, from_u64(10))
            bytes == as_bytes(s)
        IN  IF ~(is_char_boundary(bytes, i) /\ is_char_boundary(bytes, i + 1))
            THEN Panic  \* &s[i..=i] is not a slice of whole characters
            ELSE
                LET parsed == from_str_radix(<<bytes[i + 1]>>) IN
                IF parsed.tag = "Err" THEN Err("InnerError")
                ELSE
                    LET digit == from_u64(parsed.val) IN
                    IF lt(add_assign(times10, digit), times10) THEN Err("Overflow")
                    ELSE from_decimal_loop(s, i + 1, add_assign(times10, digit))

\* U256::from_decimal_str
from_decimal_str(s) ==
    IF s = <<>> THEN Err("Empty") ELSE from_decimal_loop(s, 0, ZERO)

\* u64::to_string
RECURSIVE to_string(_)
to_string(n) ==
    IF n < 10 THEN <<48 + n>> ELSE to_string(n \div 10) \o <<48 + (n % 10)>>

\* .chars().rev().collect()
RECURSIVE rev(_)
rev(s) == IF s = <<>> THEN <<>> ELSE rev(Tail(s)) \o <<Head(s)>>

\* the `while copy > Self::ZERO` loop of to_decimal_str
RECURSIVE to_decimal_loop(_, _)
to_decimal_loop(copy, result) ==
    IF ~gt(copy, ZERO) THEN result
    ELSE
        LET digit == rem_assign(copy, from_u64(10)).c0 IN
        to_decimal_loop(div_assign(copy, from_u64(10)), result \o to_string(digit))

\* a plausible slip: the zero case is left to the loop, which pushes no digit
to_decimal_str_no_zero(x) == rev(to_decimal_loop(x, <<>>))

\* U256::to_decimal_str
to_decimal_str(x) ==
    IF x = ZERO THEN <<48>> ELSE rev(to_decimal_loop(x, <<>>))

----------------------------------------------------------------------------
(* Inputs of the decimal conversions *)

\* 2^256
TwoToBits == 2 ^ (4 * LimbBits)

\* how far around 0, 2^256 and 10 * 2^256 the numbers written out are taken
NumSpread == 40

\* the numbers written out as decimal strings
NumSample ==
    (0 .. NumSpread)
    \cup ((TwoToBits - NumSpread) .. (TwoToBits + NumSpread))
    \cup ((10 * TwoToBits - NumSpread) .. (10 * TwoToBits + NumSpread))

\* the U256 values converted to decimal and back
U256Sample ==
    EdgeU256
    \cup {U256Of(v) : v \in 0 .. NumSpread}
    \cup {U256Of(v) : v \in (TwoToBits - 1 - NumSpread) .. (TwoToBits - 1)}

\* the decimal digits of an integer, without leading zeros
RECURSIVE DigitsOf(_)
DigitsOf(v) ==
    IF v < 10 THEN <<48 + v>> ELSE DigitsOf(v \div 10) \o <<48 + (v % 10)>>

\* the integer a string of digits stands for, capped at cap
RECURSIVE NumberOf(_, _, _)
NumberOf(s, acc, cap) ==
    IF s = <<>> \/ acc >= cap THEN acc
    ELSE NumberOf(Tail(s), 10 * acc + (Head(s) - 48), cap)

Zeros(k) == [i \in 1 .. k |-> 48]

IsDigit(c) == c >= 48 /\ c <= 57

\* strings of digits only
DigitStrings ==
    {<<>>} \cup {Zeros(k) \o DigitsOf(v) : k \in 0 .. MaxLeadingZeros, v \in NumSample}

\* characters that are no digit: "a" (one byte), "+" (one byte), U+00E9 (two bytes)
NonDigit == {97, 43, 233}

\* s with the character c put in at index j
InsertAt(s, j, c) == SubSeq(s, 1, j) \o <<c>> \o SubSeq(s, j + 1, Len(s))

\* strings of digits with one non-digit character somewhere
MixedStrings ==
    UNION {{InsertAt(s, j, c) : j \in 0 .. Len(s), c \in NonDigit} :
                s \in {DigitsOf(v) : v \in NumSample} \cup {<<>>}}

----------------------------------------------------------------------------
(* Specification of U256::from_decimal_str on arbitrary strings *)

InitParse ==
    /\ pc = "parse"
    /\ dstr \in DigitStrings \cup MixedStrings
    /\ dout = Idle
    /\ ua = ZERO
    /\ ub = ZERO
    /\ uout = Idle
    /\ ir = ZERO
    /\ jp = IdlePoint
    /\ jq = IdlePoint
    /\ jold = IdlePoint
    /\ ja = Idle
    /\ mi = 0
    /\ um = ZERO
    /\ un = 0
    /\ buf = <<>>
    /\ pw = Idle
    /\ claim = Idle
    /\ witness = Idle
    /\ tt = Idle

FromDecimalStr ==
    /\ pc = "parse"
    /\ dout' = from_decimal_str(dstr)
    /\ pc' = "parse_ret"
    /\ UNCHANGED <<claim, witness, tt, um, un, buf, pw, ua, ub, uout, dstr, ir, jp, jq, jold, ja, mi>>

NextParse == FromDecimalStr

SpecParse == InitParse /\ [][NextParse]_vars

AllDigits(s) == \A i \in 1 .. Len(s) : IsDigit(s[i])

\* C2: a string of digits parses to Ok(v) when its value v is below 2^256,
\* to Err(Overflow) when v is 2^256 or more; the empty string to Err(Empty).
C2_Overflow ==
    (pc = "parse_ret" /\ AllDigits(dstr)) =>
        IF dstr = <<>> THEN dout = Err("Empty")
        ELSE IF NumberOf(dstr, 0, TwoToBits) >= TwoToBits THEN dout = Err("Overflow")
        ELSE dout = Ok(U256Of(NumberOf(dstr, 0, TwoToBits)))

\* C8: a non-empty string with a character outside 0-9 parses to
\* Err(InnerError), wherever the character stands.
C8_InnerError ==
    (pc = "parse_ret" /\ dstr # <<>> /\ ~AllDigits(dstr)) => dout = Err("InnerError")

----------------------------------------------------------------------------
(* Specification of the decimal round trip *)

InitRoundTrip ==
    /\ pc = "format"
    /\ ua \in U256Sample
    /\ dstr = <<>>
    /\ dout = Idle
    /\ ub = ZERO
    /\ uout = Idle
    /\ ir = ZERO
    /\ jp = IdlePoint
    /\ jq = IdlePoint
    /\ jold = IdlePoint
    /\ ja = Idle
    /\ mi = 0
    /\ um = ZERO
    /\ un = 0
    /\ buf = <<>>
    /\ pw = Idle
    /\ claim = Idle
    /\ witness = Idle
    /\ tt = Idle

ToDecimalStr ==
    /\ pc = "format"
    /\ dstr' = to_decimal_str(ua)
    /\ pc' = "parse"
    /\ UNCHANGED <<claim, witness, tt, um, un, buf, pw, ua, ub, uout, dout, ir, jp, jq, jold, ja, mi>>

NextRoundTrip == ToDecimalStr \/ FromDecimalStr

SpecRoundTrip == InitRoundTrip /\ [][NextRoundTrip]_vars

\* C9: from_decimal_str(x.to_decimal_str()) returns Ok(x) for every U256 x.
C9_RoundTrip ==
    pc = "parse_ret" => dout = Ok(ua)

\* the round trip of 2^256 - 1, the longest string
C9_Witness ==
    /\ pc = "parse_ret"
    /\ ua = MAX
    /\ Len(dstr) > LimbBits
    /\ dout.tag = "Ok"

----------------------------------------------------------------------------
(* U256::invmod256: the inverse modulo 2^256 *)

\* ^ on unsigned integers
RECURSIVE BitXor(_, _)
BitXor(x, y) ==
    IF x = 0 /\ y = 0 THEN 0
    ELSE (((x % 2) + (y % 2)) % 2) + 2 * BitXor(x \div 2, y \div 2)

\* (Wrapping(3) * c) ^ Wrapping(2), in u64
invmod_seed(c) == BitXor(WrapMod(3 * c, Base), 2)

\* r *= Wrapping(2) - c * r, in a wrapping type of modulus m
newton(c, r, m) == WrapMod(r * WrapMod(2 - WrapMod(c * r, m), m), m)

\* the four steps in u64, from the seed on
RECURSIVE newton_u64(_, _, _)
newton_u64(c, r, steps) ==
    IF steps = 0 THEN r ELSE newton_u64(c, newton(c, r, Base), steps - 1)

\* a plausible slip: the step in u128 is left out
newton_u128_skipped(x, r) == r

\* the step in u128: r *= Wrapping(2) - Wrapping(self.as_u128()) * r
newton_u128(x, r) == newton(as_u128(x), r, Base * Base)

\* the step in U256: r *= &(Self::from(2_u64) - &(r.clone() * self))
newton_u256(x, r) == mul_assign(r, sub_assign(from_u64(2), mul_assign(r, x)))

\* U256::invmod256
invmod256(x) ==
    IF is_even(x) THEN None
    ELSE Some(newton_u256(x,
                from_u128(newton_u128(x, newton_u64(x.c0, invmod_seed(x.c0), 4)))))

----------------------------------------------------------------------------
(* Specification of U256::invmod256, one action per statement *)

InitInvmod256 ==
    /\ pc = "invmod256"
    /\ ua \in U256Sample
    /\ ir = ZERO
    /\ uout = Idle
    /\ ub = ZERO
    /\ dstr = <<>>
    /\ dout = Idle
    /\ jp = IdlePoint
    /\ jq = IdlePoint
    /\ jold = IdlePoint
    /\ ja = Idle
    /\ mi = 0
    /\ um = ZERO
    /\ un = 0
    /\ buf = <<>>
    /\ pw = Idle
    /\ claim = Idle
    /\ witness = Idle
    /\ tt = Idle

\* if self.is_even() { None }
InvEven ==
    /\ pc = "invmod256"
    /\ is_even(ua)
    /\ uout' = None
    /\ pc' = "invmod256_ret"
    /\ UNCHANGED <<claim, witness, tt, um, un, buf, pw, ua, ub, dstr, dout, ir, jp, jq, jold, ja, mi>>

\* let mut r = (Wrapping(3) * c) ^ Wrapping(2); // mod 2^4
InvSeed ==
    /\ pc = "invmod256"
    /\ ~is_even(ua)
    /\ ir' = from_u64(invmod_seed(ua.c0))
    /\ pc' = "mod2_4"
    /\ UNCHANGED <<claim, witness, tt, um, un, buf, pw, ua, ub, uout, dstr, dout, jp, jq, jold, ja, mi>>

\* r *= Wrapping(2) - c * r; // mod 2^8, 2^16, 2^32, 2^64
InvStep64 ==
    /\ pc \in {"mod2_4", "mod2_8", "mod2_16", "mod2_32"}
    /\ ir' = from_u64(newton_u64(ua.c0, ir.c0, 1))
    /\ pc' = CASE pc = "mod2_4" -> "mod2_8"
               [] pc = "mod2_8" -> "mod2_16"
               [] pc = "mod2_16" -> "mod2_32"
               [] pc = "mod2_32" -> "mod2_64"
    /\ UNCHANGED <<claim, witness, tt, um, un, buf, pw, ua, ub, uout, dstr, dout, jp, jq, jold, ja, mi>>

\* let mut r = Wrapping(u128::from(r.0)); r *= ...; // mod 2^128
InvStep128 ==
    /\ pc = "mod2_64"
    /\ ir' = from_u128(newton_u128(ua, ir.c0))
    /\ pc' = "mod2_128"
    /\ UNCHANGED <<claim, witness, tt, um, un, buf, pw, ua, ub, uout, dstr, dout, jp, jq, jold, ja, mi>>

\* let mut r = Self::from(r.0); r *= ...; // mod 2^256; Some(r)
InvStep256 ==
    /\ pc = "mod2_128"
    /\ ir' = newton_u256(ua, ir)
    /\ uout' = Some(newton_u256(ua, ir))
    /\ pc' = "invmod256_ret"
    /\ UNCHANGED <<claim, witness, tt, um, un, buf, pw, ua, ub, dstr, dout, jp, jq, jold, ja, mi>>

NextInvmod256 == InvEven \/ InvSeed \/ InvStep64 \/ InvStep128 \/ InvStep256

SpecInvmod256 == InitInvmod256 /\ [][NextInvmod256]_vars

\* x * y modulo m, for 0 <= x < m
RECURSIVE MulMod(_, _, _)
MulMod(x, y, m) ==
    IF y = 0 THEN 0 ELSE (2 * MulMod(x, y \div 2, m) + (y % 2) * x) % m

Min(x, y) == IF x < y THEN x ELSE y

\* a * r = 1 modulo 2^bits
InverseTo(bits) ==
    LET m == 2 ^ bits IN MulMod(Val(ua) % m, Val(ir), m) = 1 % m

\* the number of low bits the comment of each statement promises, capped by
\* the width of the type the statement computes in
PromisedBits ==
    CASE pc = "mod2_4" -> Min(4, LimbBits)
      [] pc = "mod2_8" -> Min(8, LimbBits)
      [] pc = "mod2_16" -> Min(16, LimbBits)
      [] pc = "mod2_32" -> Min(32, LimbBits)
      [] pc = "mod2_64" -> Min(64, LimbBits)
      [] pc = "mod2_128" -> Min(128, 2 * LimbBits)
      [] pc = "invmod256_ret" -> Min(256, 4 * LimbBits)
      [] OTHER -> 0

----------------------------------------------------------------------------
(* U256 bit accessors *)

\* number of bits of a limb value: 64 - u64::leading_zeros
RECURSIVE BitLen(_)
BitLen(v) == IF v = 0 THEN 0 ELSE 1 + BitLen(v \div 2)

\* u64::leading_zeros
u64_leading_zeros(v) == LimbBits - BitLen(v)

\* usize::max_value(); usize is as wide as a limb
UsizeMax == Base - 1

\* U256::leading_zeros
leading_zeros(x) ==
    IF x.c3 > 0 THEN u64_leading_zeros(x.c3)
    ELSE IF x.c2 > 0 THEN LimbBits + u64_leading_zeros(x.c2)
    ELSE IF x.c1 > 0 THEN 2 * LimbBits + u64_leading_zeros(x.c1)
    ELSE IF x.c0 > 0 THEN 3 * LimbBits + u64_leading_zeros(x.c0)
    ELSE 4 * LimbBits

\* U256::msb: 255 - self.leading_zeros() in usize.  For zero the subtraction
\* overflows: a build with overflow checks panics, one without wraps around.
msb(x) ==
    IF leading_zeros(x) > 4 * LimbBits - 1
    THEN {Panic, Ok(UsizeMax - (leading_zeros(x) - 4 * LimbBits))}
    ELSE {Ok(4 * LimbBits - 1 - leading_zeros(x))}

\* U256::bit
bit(x, i) ==
    IF i < LimbBits THEN (x.c0 \div 2 ^ i) % 2 = 1
    ELSE IF i < 2 * LimbBits THEN (x.c1 \div 2 ^ (i - LimbBits)) % 2 = 1
    ELSE IF i < 3 * LimbBits THEN (x.c2 \div 2 ^ (i - 2 * LimbBits)) % 2 = 1
    ELSE IF i < 4 * LimbBits THEN (x.c3 \div 2 ^ (i - 3 * LimbBits)) % 2 = 1
    ELSE FALSE

----------------------------------------------------------------------------
(* FieldElement (zkp_primefield), by value: the integers modulo MODULUS *)

FieldPrimes == <<7, 11, 13>>

CurveBetas == <<4, 1, 1>>

MODULUS == FieldPrimes[FieldIdx]

\* the curve is y^2 = x^3 + ALPHA * x + BETA
ALPHA == 1

BETA == CurveBetas[FieldIdx]

FieldElement == 0 .. MODULUS - 1

fe_add(x, y) == (x + y) % MODULUS

fe_sub(x, y) == (x - y + MODULUS) % MODULUS

fe_mul(x, y) == (x * y) % MODULUS

fe_neg(x) == (MODULUS - x) % MODULUS

fe_square(x) == fe_mul(x, x)

fe_double(x) == fe_add(x, x)

fe_triple(x) == fe_add(fe_add(x, x), x)

\* FieldElement::inv: None for zero
fe_inv(x) ==
    IF x = 0 THEN None
    ELSE Some(CHOOSE i \in FieldElement : fe_mul(x, i) = 1)

----------------------------------------------------------------------------
(* Affine (curve.rs) *)

Zero == [tag |-> "Zero"]

Point(px, py) == [tag |-> "Point", x |-> px, y |-> py]

\* Affine::on_curve
affine_on_curve(p) ==
    \/ p = Zero
    \/ /\ p # Zero
       /\ fe_square(p.y) = fe_add(fe_add(fe_mul(fe_square(p.x), p.x), fe_mul(ALPHA, p.x)), BETA)

\* Affine::neg
affine_neg(p) == IF p = Zero THEN Zero ELSE Point(p.x, fe_neg(p.y))

----------------------------------------------------------------------------
(* Jacobian *)

Jacobian_ZERO == [x |-> 1, y |-> 1, z |-> 0]

\* impl From<&Affine> for Jacobian
jacobian_from(p) ==
    IF p = Zero THEN Jacobian_ZERO ELSE [x |-> p.x, y |-> p.y, z |-> 1]

\* a plausible slip: y is scaled by 1/z^2, as x is, where 1/z^3 is due
affine_from_square_only(j) ==
    LET zinv == fe_inv(j.z) IN
    IF zinv = None THEN Zero
    ELSE LET zi == zinv.val
             zi2 == fe_square(zi)
         IN Point(fe_mul(j.x, zi2), fe_mul(j.y, zi2))

\* impl From<&Jacobian> for Affine
affine_from(j) ==
    LET zinv == fe_inv(j.z) IN
    IF zinv = None THEN Zero
    ELSE LET zi == zinv.val
             zi2 == fe_square(zi)
             zi3 == fe_mul(zi, zi2)
         IN Point(fe_mul(j.x, zi2), fe_mul(j.y, zi3))

\* impl PartialEq for Jacobian
jacobian_eq(j, rhs) == affine_from(j) = affine_from(rhs)

\* Jacobian::on_curve
on_curve(j) == affine_on_curve(affine_from(j))

\* a plausible slip: the term alpha * ZZ^2 is dropped from M, as for a curve
\* with alpha = 0
double_assign_no_alpha_term(j) ==
    IF j.y = 0 THEN Jacobian_ZERO
    ELSE
        LET xx == fe_square(j.x)
            yy == fe_square(j.y)
            yyyy == fe_square(yy)
            zz == fe_square(j.z)
            s == fe_double(fe_sub(fe_sub(fe_square(fe_add(j.x, yy)), xx), yyyy))
            m == fe_triple(xx)
            z3 == fe_sub(fe_sub(fe_square(fe_add(j.y, j.z)), yy), zz)
            x3 == fe_sub(fe_square(m), fe_double(s))
            y3 == fe_sub(fe_mul(m, fe_sub(s, x3)), fe_double(fe_double(fe_double(yyyy))))
        IN [x |-> x3, y |-> y3, z |-> z3]

\* Jacobian::double_assign
double_assign(j) ==
    IF j.y = 0 THEN Jacobian_ZERO
    ELSE
        LET xx == fe_square(j.x)
            yy == fe_square(j.y)
            yyyy == fe_square(yy)
            zz == fe_square(j.z)
            s == fe_double(fe_sub(fe_sub(fe_square(fe_add(j.x, yy)), xx), yyyy))
            m == fe_add(fe_triple(xx), fe_square(zz))
            z3 == fe_sub(fe_sub(fe_square(fe_add(j.y, j.z)), yy), zz)
            x3 == fe_sub(fe_square(m), fe_double(s))
            y3 == fe_sub(fe_mul(m, fe_sub(s, x3)), fe_double(fe_double(fe_double(yyyy))))
        IN [x |-> x3, y |-> y3, z |-> z3]

\* a plausible slip: the wrong coordinate is negated
neg_assign_flips_x(j) == [j EXCEPT !.x = fe_neg(j.x)]

\* Jacobian::neg_assign
neg_assign(j) == [j EXCEPT !.y = fe_neg(j.y)]

\* Jacobian::double
double(j) == double_assign(j)

\* a plausible slip: the early return for a neutral rhs is missing
add_assign_jacobian_no_rhs_check(j, rhs) ==
    IF j.z = 0 THEN rhs
    ELSE
        LET z1z1 == fe_square(j.z)
            z2z2 == fe_square(rhs.z)
            u1 == fe_mul(j.x, z2z2)
            u2 == fe_mul(rhs.x, z1z1)
            s1 == fe_mul(fe_mul(j.y, rhs.z), z2z2)
            s2 == fe_mul(fe_mul(rhs.y, j.z), z1z1)
        IN  IF u1 = u2 THEN (IF s1 = s2 THEN double_assign(j) ELSE Jacobian_ZERO)
            ELSE
                LET h == fe_sub(u2, u1)
                    i == fe_square(fe_double(h))
                    jj == fe_mul(h, i)
                    r == fe_double(fe_sub(s2, s1))
                    v == fe_mul(u1, i)
                    x3 == fe_sub(fe_sub(fe_square(r), jj), fe_double(v))
                    y3 == fe_sub(fe_mul(r, fe_sub(v, x3)), fe_double(fe_mul(s1, jj)))
                    z3 == fe_mul(fe_sub(fe_sub(fe_square(fe_add(j.z, rhs.z)), z1z1), z2z2), h)
                IN [x |-> x3, y |-> y3, z |-> z3]

\* a plausible slip: equal x always means the same point, so the sum of a
\* point and its negation is computed as a double
add_assign_jacobian_always_doubles(j, rhs) ==
    IF rhs.z = 0 THEN j
    ELSE IF j.z = 0 THEN rhs
    ELSE
        LET z1z1 == fe_square(j.z)
            z2z2 == fe_square(rhs.z)
            u1 == fe_mul(j.x, z2z2)
            u2 == fe_mul(rhs.x, z1z1)
            s1 == fe_mul(fe_mul(j.y, rhs.z), z2z2)
            s2 == fe_mul(fe_mul(rhs.y, j.z), z1z1)
        IN  IF u1 = u2 THEN double_assign(j)
            ELSE
                LET h == fe_sub(u2, u1)
                    i == fe_square(fe_double(h))
                    jj == fe_mul(h, i)
                    r == fe_double(fe_sub(s2, s1))
                    v == fe_mul(u1, i)
                    x3 == fe_sub(fe_sub(fe_square(r), jj), fe_double(v))
                    y3 == fe_sub(fe_mul(r, fe_sub(v, x3)), fe_double(fe_mul(s1, jj)))
                    z3 == fe_mul(fe_sub(fe_sub(fe_square(fe_add(j.z, rhs.z)), z1z1), z2z2), h)
                IN [x |-> x3, y |-> y3, z |-> z3]

\* impl AddAssign<&Jacobian> for Jacobian
add_assign_jacobian(j, rhs) ==
    IF rhs.z = 0 THEN j
    ELSE IF j.z = 0 THEN rhs
    ELSE
        LET z1z1 == fe_square(j.z)
            z2z2 == fe_square(rhs.z)
            u1 == fe_mul(j.x, z2z2)
            u2 == fe_mul(rhs.x, z1z1)
            s1 == fe_mul(fe_mul(j.y, rhs.z), z2z2)
            s2 == fe_mul(fe_mul(rhs.y, j.z), z1z1)
        IN  IF u1 = u2 THEN (IF s1 = s2 THEN double_assign(j) ELSE Jacobian_ZERO)
            ELSE
                LET h == fe_sub(u2, u1)
                    i == fe_square(fe_double(h))
                    jj == fe_mul(h, i)
                    r == fe_double(fe_sub(s2, s1))
                    v == fe_mul(u1, i)
                    x3 == fe_sub(fe_sub(fe_square(r), jj), fe_double(v))
                    y3 == fe_sub(fe_mul(r, fe_sub(v, x3)), fe_double(fe_mul(s1, jj)))
                    z3 == fe_mul(fe_sub(fe_sub(fe_square(fe_add(j.z, rhs.z)), z1z1), z2z2), h)
                IN [x |-> x3, y |-> y3, z |-> z3]

\* impl AddAssign<&Affine> for Jacobian
add_assign_affine(j, rhs) ==
    IF rhs = Zero THEN j
    ELSE IF j.z = 0 THEN [x |-> rhs.x, y |-> rhs.y, z |-> 1]
    ELSE
        LET z1z1 == fe_square(j.z)
            u2 == fe_mul(rhs.x, z1z1)
            s2 == fe_mul(fe_mul(rhs.y, j.z), z1z1)
        IN  IF j.x = u2 THEN (IF j.x = s2 THEN double_assign(j) ELSE Jacobian_ZERO)
            ELSE
                LET h == fe_sub(u2, j.x)
                    hh == fe_square(h)
                    i == fe_double(fe_double(hh))
                    jj == fe_mul(h, i)
                    r == fe_double(fe_sub(s2, j.y))
                    v == fe_mul(j.x, i)
                    x3 == fe_sub(fe_sub(fe_square(r), jj), fe_double(v))
                    y3 == fe_sub(fe_mul(r, fe_sub(v, x3)), fe_double(fe_mul(j.y, jj)))
                    z3 == fe_sub(fe_sub(fe_square(fe_add(j.z, h)), z1z1), hh)
                IN [x |-> x3, y |-> y3, z |-> z3]

\* impl SubAssign<&Affine> for Jacobian
sub_assign_affine(j, rhs) == add_assign_affine(j, affine_neg(rhs))

\* the body of the loop of Jacobian::mul, for one i
mul_body(r, p, scalar, i) ==
    IF bit(scalar, i) THEN add_assign_affine(double_assign(r), p)
    ELSE double_assign(r)

\* for i in (0..n).rev() { ... }
RECURSIVE mul_loop(_, _, _, _)
mul_loop(r, p, scalar, n) ==
    IF n = 0 THEN r ELSE mul_loop(mul_body(r, p, scalar, n - 1), p, scalar, n - 1)

\* Jacobian::mul: the results the builds can produce
mul(p, scalar) ==
    {IF n.tag = "Panic" THEN Panic ELSE Ok(mul_loop(jacobian_from(p), p, scalar, n.val)) :
        n \in msb(scalar)}

----------------------------------------------------------------------------
(* Inputs of the curve operations *)

\* every affine point of the curve, Zero included
AffineOnCurve ==
    {Zero} \cup {q \in {Point(px, py) : px \in FieldElement, py \in FieldElement} :
                    affine_on_curve(q)}

\* every Jacobian triple that stands for a point of the curve: all
\* representations (any z # 0) of the affine points, and all triples with z = 0
JacobianOnCurve ==
    {j \in [x : FieldElement, y : FieldElement, z : FieldElement] : on_curve(j)}

\* crate::ORDER, the order of the group
ORDER == Cardinality(AffineOnCurve)

\* the scalars multiplied with: the small ones and the edge-limb ones
ScalarSample == {U256Of(k) : k \in 0 .. MaxScalar} \cup EdgeU256

(* The group law of the curve in affine coordinates (chord and tangent),   *)
(* the reference the Jacobian results are compared with.                    *)
fe_div(x, y) == fe_mul(x, fe_inv(y).val)

GroupAdd(p, q) ==
    IF p = Zero THEN q
    ELSE IF q = Zero THEN p
    ELSE IF p.x = q.x /\ p.y = fe_neg(q.y) THEN Zero
    ELSE
        LET lambda == IF p = q
                      THEN fe_div(fe_add(fe_triple(fe_square(p.x)), ALPHA), fe_double(p.y))
                      ELSE fe_div(fe_sub(q.y, p.y), fe_sub(q.x, p.x))
            x3 == fe_sub(fe_sub(fe_square(lambda), p.x), q.x)
        IN Point(x3, fe_sub(fe_mul(lambda, fe_sub(p.x, x3)), p.y))

\* the k-fold sum p + p + ... + p
RECURSIVE GroupMul(_, _)
GroupMul(p, k) ==
    IF k = 0 THEN Zero
    ELSE IF k % 2 = 1 THEN GroupAdd(GroupMul(p, k - 1), p)
    ELSE LET half == GroupMul(p, k \div 2) IN GroupAdd(half, half)

----------------------------------------------------------------------------
(* Specification of the Jacobian accumulator operations *)

InitCurve ==
    /\ pc = "curve"
    /\ jp \in JacobianOnCurve
    /\ jold = jp
    /\ jq = Jacobian_ZERO
    /\ ja = Zero
    /\ ua = ZERO
    /\ ub = ZERO
    /\ uout = Idle
    /\ dstr = <<>>
    /\ dout = Idle
    /\ ir = ZERO
    /\ mi = 0
    /\ um = ZERO
    /\ un = 0
    /\ buf = <<>>
    /\ pw = Idle
    /\ claim = Idle
    /\ witness = Idle
    /\ tt = Idle

\* self += &rhs, rhs a Jacobian
AddAssignJacobian ==
    \E rhs \in JacobianOnCurve :
        /\ jp' = add_assign_jacobian(jp, rhs)
        /\ jold' = jp
        /\ jq' = rhs
        /\ ja' = Zero
        /\ pc' = "add_jacobian"
        /\ UNCHANGED <<claim, witness, tt, um, un, buf, pw, ua, ub, uout, dstr, dout, ir, mi>>

\* self += &rhs, rhs an Affine
AddAssignAffine ==
    \E rhs \in AffineOnCurve :
        /\ jp' = add_assign_affine(jp, rhs)
        /\ jold' = jp
        /\ ja' = rhs
        /\ jq' = Jacobian_ZERO
        /\ pc' = "add_affine"
        /\ UNCHANGED <<claim, witness, tt, um, un, buf, pw, ua, ub, uout, dstr, dout, ir, mi>>

\* self -= &rhs, rhs an Affine
SubAssignAffine ==
    \E rhs \in AffineOnCurve :
        /\ jp' = sub_assign_affine(jp, rhs)
        /\ jold' = jp
        /\ ja' = rhs
        /\ jq' = Jacobian_ZERO
        /\ pc' = "sub_affine"
        /\ UNCHANGED <<claim, witness, tt, um, un, buf, pw, ua, ub, uout, dstr, dout, ir, mi>>

\* self.double_assign()
DoubleAssign ==
    /\ jp' = double_assign(jp)
    /\ jold' = jp
    /\ jq' = Jacobian_ZERO
    /\ ja' = Zero
    /\ pc' = "double"
    /\ UNCHANGED <<claim, witness, tt, um, un, buf, pw, ua, ub, uout, dstr, dout, ir, mi>>

\* self.neg_assign()
NegAssign ==
    /\ jp' = neg_assign(jp)
    /\ jold' = jp
    /\ jq' = Jacobian_ZERO
    /\ ja' = Zero
    /\ pc' = "neg"
    /\ UNCHANGED <<claim, witness, tt, um, un, buf, pw, ua, ub, uout, dstr, dout, ir, mi>>

NextCurve ==
    AddAssignJacobian \/ AddAssignAffine \/ SubAssignAffine \/ DoubleAssign \/ NegAssign

SpecCurve == InitCurve /\ [][NextCurve]_vars

\* C5: for a Jacobian representation J (z # 0) of an affine point P, the
\* mixed addition J += P yields a point equal to J.double().
C5_MixedSelfAdd ==
    (pc = "add_affine" /\ jold.z # 0 /\ ja = affine_from(jold))
        => jacobian_eq(jp, double(jold))

\* C7: P + Q and Q + P are equal for all Jacobian points P, Q of the curve.
C7_AddCommutative ==
    pc = "add_jacobian" => jacobian_eq(jp, add_assign_jacobian(jq, jold))

\* two distinct points, neither the other's negative, both with z other than
\* 0 and 1, have been added by the general formula
C7_Witness ==
    /\ pc = "add_jacobian"
    /\ jold.z > 1
    /\ jq.z > 1
    /\ jold.z # jq.z
    /\ affine_from(jold).x # affine_from(jq).x
    /\ jp.z # 0
    /\ affine_from(jp) = GroupAdd(affine_from(jold), affine_from(jq))

----------------------------------------------------------------------------
(* Specification of Jacobian::mul, one action per loop iteration *)

InitMul ==
    /\ pc = "mul"
    /\ ja \in AffineOnCurve
    /\ ua \in ScalarSample
    /\ jp = Jacobian_ZERO
    /\ jold = Jacobian_ZERO
    /\ jq = Jacobian_ZERO
    /\ mi = 0
    /\ um = ZERO
    /\ un = 0
    /\ buf = <<>>
    /\ pw = Idle
    /\ claim = Idle
    /\ witness = Idle
    /\ tt = Idle
    /\ ub = ZERO
    /\ uout = Idle
    /\ dstr = <<>>
    /\ dout = Idle
    /\ ir = ZERO

\* let mut r = Self::from(p); the range 0..scalar.msb() is evaluated
MulBegin ==
    /\ pc = "mul"
    /\ \E n \in msb(ua) :
        /\ n.tag = "Ok"
        /\ mi' = n.val
        /\ jp' = jacobian_from(ja)
        /\ pc' = "mul_loop"
    /\ UNCHANGED <<claim, witness, tt, um, un, buf, pw, ua, ub, uout, dstr, dout, ir, jq, jold, ja>>

\* scalar.msb() panics on its subtraction
MulPanic ==
    /\ pc = "mul"
    /\ \E n \in msb(ua) : n.tag = "Panic"
    /\ pc' = "mul_panic"
    /\ UNCHANGED <<claim, witness, tt, um, un, buf, pw, ua, ub, uout, dstr, dout, ir, jp, jq, jold, ja, mi>>

\* one iteration: r.double_assign(); if scalar.bit(i) { r += p; }
MulStep ==
    /\ pc = "mul_loop"
    /\ mi > 0
    /\ jp' = mul_body(jp, ja, ua, mi - 1)
    /\ mi' = mi - 1
    /\ UNCHANGED <<claim, witness, tt, um, un, buf, pw, pc, ua, ub, uout, dstr, dout, ir, jq, jold, ja>>

\* the range is exhausted: r is returned
MulReturn ==
    /\ pc = "mul_loop"
    /\ mi = 0
    /\ pc' = "mul_ret"
    /\ UNCHANGED <<claim, witness, tt, um, un, buf, pw, ua, ub, uout, dstr, dout, ir, jp, jq, jold, ja, mi>>

NextMul == MulBegin \/ MulPanic \/ MulStep \/ MulReturn

SpecMul == InitMul /\ [][NextMul]_vars

MulEnded == pc \in {"mul_ret", "mul_panic"}

\* C3: Jacobian::mul(P, 0) returns the neutral element (z = 0) for every
\* affine point P.
C3_ZeroScalar ==
    (MulEnded /\ ua = ZERO) => (pc = "mul_ret" /\ jp.z = 0)

\* C4: for every affine point P of the curve and every scalar k >= 1,
\* Jacobian::mul(P, k) returns a point whose affine image is the k-fold sum
\* of P.
C4_ScalarMul ==
    (MulEnded /\ ua # ZERO) =>
        (pc = "mul_ret" /\ affine_from(jp) = GroupMul(ja, Val(ua)))

----------------------------------------------------------------------------
(* Specification of tests::distributivity *)

InitDistrib ==
    /\ pc = "distrib"
    /\ ja \in AffineOnCurve
    /\ ua \in {U256Of(k) : k \in 0 .. ORDER - 1}
    /\ ub \in {U256Of(k) : k \in 0 .. ORDER - 1}
    /\ jp = Jacobian_ZERO
    /\ jold = Jacobian_ZERO
    /\ jq = Jacobian_ZERO
    /\ mi = 0
    /\ um = ZERO
    /\ un = 0
    /\ buf = <<>>
    /\ pw = Idle
    /\ claim = Idle
    /\ witness = Idle
    /\ tt = Idle
    /\ uout = Idle
    /\ dstr = <<>>
    /\ dout = Idle
    /\ ir = ZERO

\* (&p * a) + (&p * b) and &p * c with c = &a + &b, all three returning
Distribute ==
    /\ pc = "distrib"
    /\ \E ra \in mul(ja, ua), rb \in mul(ja, ub), rc \in mul(ja, add_assign(ua, ub)) :
        /\ ra.tag = "Ok" /\ rb.tag = "Ok" /\ rc.tag = "Ok"
        /\ jp' = add_assign_jacobian(ra.val, rb.val)
        /\ jq' = rc.val
    /\ pc' = "distrib_ret"
    /\ UNCHANGED <<claim, witness, tt, um, un, buf, pw, ua, ub, uout, dstr, dout, ir, jold, ja, mi>>

\* one of the three multiplications panics
DistributePanic ==
    /\ pc = "distrib"
    /\ \E ra \in mul(ja, ua), rb \in mul(ja, ub), rc \in mul(ja, add_assign(ua, ub)) :
        ra.tag = "Panic" \/ rb.tag = "Panic" \/ rc.tag = "Panic"
    /\ pc' = "distrib_panic"
    /\ UNCHANGED <<claim, witness, tt, um, un, buf, pw, ua, ub, uout, dstr, dout, ir, jp, jq, jold, ja, mi>>

NextDistrib == Distribute \/ DistributePanic

SpecDistrib == InitDistrib /\ [][NextDistrib]_vars

\* C6: (a * P) + (b * P) equals (a + b) * P for every curve point P and all
\* scalars a, b below the group order, a = 0 and b = 0 included.
C6_Distributive ==
    pc # "distrib" => (pc = "distrib_ret" /\ jacobian_eq(jp, jq))

----------------------------------------------------------------------------
(* U256::mul_full and U256::sqr_full *)

\* u64 | u64
RECURSIVE BitOr(_, _)
BitOr(x, y) ==
    IF x = 0 /\ y = 0 THEN 0
    ELSE (IF x % 2 = 1 \/ y % 2 = 1 THEN 1 ELSE 0) + 2 * BitOr(x \div 2, y \div 2)

\* u64 << n and u64 >> n, for 0 <= n < 64
shl64(v, n) == (v * (2 ^ n)) % Base

shr64(v, n) == v \div (2 ^ n)

\* a plausible slip: the carry out of the first row is not kept as r4
mul_full_dropped_carry(x, rhs) ==
    LET a0 == mac(0, x.c0, rhs.c0, 0)
        a1 == mac(0, x.c0, rhs.c1, a0[2])
        a2 == mac(0, x.c0, rhs.c2, a1[2])
        a3 == mac(0, x.c0, rhs.c3, a2[2])
        b1 == mac(a1[1], x.c1, rhs.c0, 0)
        b2 == mac(a2[1], x.c1, rhs.c1, b1[2])
        b3 == mac(a3[1], x.c1, rhs.c2, b2[2])
        b4 == mac(0, x.c1, rhs.c3, b3[2])
        d2 == mac(b2[1], x.c2, rhs.c0, 0)
        d3 == mac(b3[1], x.c2, rhs.c1, d2[2])
        d4 == mac(b4[1], x.c2, rhs.c2, d3[2])
        d5 == mac(b4[2], x.c2, rhs.c3, d4[2])
        e3 == mac(d3[1], x.c3, rhs.c0, 0)
        e4 == mac(d4[1], x.c3, rhs.c1, e3[2])
        e5 == mac(d5[1], x.c3, rhs.c2, e4[2])
        e6 == mac(d5[2], x.c3, rhs.c3, e5[2])
    IN <<from_limbs(a0[1], b1[1], d2[1], e3[1]),
         from_limbs(e4[1], e5[1], e6[1], e6[2])>>

\* U256::mul_full: (lo, hi) of the 512-bit product
mul_full(x, rhs) ==
    LET a0 == mac(0, x.c0, rhs.c0, 0)
        a1 == mac(0, x.c0, rhs.c1, a0[2])
        a2 == mac(0, x.c0, rhs.c2, a1[2])
        a3 == mac(0, x.c0, rhs.c3, a2[2])
        b1 == mac(a1[1], x.c1, rhs.c0, 0)
        b2 == mac(a2[1], x.c1, rhs.c1, b1[2])
        b3 == mac(a3[1], x.c1, rhs.c2, b2[2])
        b4 == mac(a3[2], x.c1, rhs.c3, b3[2])
        d2 == mac(b2[1], x.c2, rhs.c0, 0)
        d3 == mac(b3[1], x.c2, rhs.c1, d2[2])
        d4 == mac(b4[1], x.c2, rhs.c2, d3[2])
        d5 == mac(b4[2], x.c2, rhs.c3, d4[2])
        e3 == mac(d3[1], x.c3, rhs.c0, 0)
        e4 == mac(d4[1], x.c3, rhs.c1, e3[2])
        e5 == mac(d5[1], x.c3, rhs.c2, e4[2])
        e6 == mac(d5[2], x.c3, rhs.c3, e5[2])
    IN <<from_limbs(a0[1], b1[1], d2[1], e3[1]),
         from_limbs(e4[1], e5[1], e6[1], e6[2])>>

\* a plausible slip: the bit shifted out of r6 is not kept as r7
sqr_full_lost_top_bit(x) ==
    LET a1 == mac(0, x.c0, x.c1, 0)
        a2 == mac(0, x.c0, x.c2, a1[2])
        a3 == mac(0, x.c0, x.c3, a2[2])
        b3 == mac(a3[1], x.c1, x.c2, 0)
        b4 == mac(a3[2], x.c1, x.c3, b3[2])
        d5 == mac(b4[2], x.c2, x.c3, 0)
        top == LimbBits - 1
        r7 == 0
        r6 == BitOr(shl64(d5[2], 1), shr64(d5[1], top))
        r5 == BitOr(shl64(d5[1], 1), shr64(b4[1], top))
        r4 == BitOr(shl64(b4[1], 1), shr64(b3[1], top))
        r3 == BitOr(shl64(b3[1], 1), shr64(a2[1], top))
        r2 == BitOr(shl64(a2[1], 1), shr64(a1[1], top))
        r1 == shl64(a1[1], 1)
        s0 == mac(0, x.c0, x.c0, 0)
        s1 == adc(r1, 0, s0[2])
        s2 == mac(r2, x.c1, x.c1, s1[2])
        s3 == adc(r3, 0, s2[2])
        s4 == mac(r4, x.c2, x.c2, s3[2])
        s5 == adc(r5, 0, s4[2])
        s6 == mac(r6, x.c3, x.c3, s5[2])
        s7 == adc(r7, 0, s6[2])
    IN <<from_limbs(s0[1], s1[1], s2[1], s3[1]),
         from_limbs(s4[1], s5[1], s6[1], s7[1])>>

\* U256::sqr_full: the off-diagonal products once, doubled by a shift, then
\* the diagonal squares added
sqr_full(x) ==
    LET a1 == mac(0, x.c0, x.c1, 0)
        a2 == mac(0, x.c0, x.c2, a1[2])
        a3 == mac(0, x.c0, x.c3, a2[2])
        b3 == mac(a3[1], x.c1, x.c2, 0)
        b4 == mac(a3[2], x.c1, x.c3, b3[2])
        d5 == mac(b4[2], x.c2, x.c3, 0)
        top == LimbBits - 1
        r7 == shr64(d5[2], top)
        r6 == BitOr(shl64(d5[2], 1), shr64(d5[1], top))
        r5 == BitOr(shl64(d5[1], 1), shr64(b4[1], top))
        r4 == BitOr(shl64(b4[1], 1), shr64(b3[1], top))
        r3 == BitOr(shl64(b3[1], 1), shr64(a2[1], top))
        r2 == BitOr(shl64(a2[1], 1), shr64(a1[1], top))
        r1 == shl64(a1[1], 1)
        s0 == mac(0, x.c0, x.c0, 0)
        s1 == adc(r1, 0, s0[2])
        s2 == mac(r2, x.c1, x.c1, s1[2])
        s3 == adc(r3, 0, s2[2])
        s4 == mac(r4, x.c2, x.c2, s3[2])
        s5 == adc(r5, 0, s4[2])
        s6 == mac(r6, x.c3, x.c3, s5[2])
        s7 == adc(r7, 0, s6[2])
    IN <<from_limbs(s0[1], s1[1], s2[1], s3[1]),
         from_limbs(s4[1], s5[1], s6[1], s7[1])>>

\* limbs in the middle of the range, where the top bit of a limb changes
MidLimb == {Base \div 2 - 1, Base \div 2}

\* U256 values of edge and middle limbs
WideU256 == {from_limbs(l0, l1, l2, l3) :
                l0 \in EdgeLimb \cup MidLimb, l1 \in EdgeLimb \cup MidLimb,
                l2 \in EdgeLimb \cup MidLimb, l3 \in EdgeLimb \cup MidLimb}

----------------------------------------------------------------------------
(* Specification of the multiplications of U256 *)

InitMulFull ==
    /\ pc = "mul"
    /\ ua \in WideU256
    /\ ub \in EdgeU256
    /\ uout = Idle
    /\ dstr = <<>>
    /\ dout = Idle
    /\ ir = ZERO
    /\ jp = IdlePoint
    /\ jq = IdlePoint
    /\ jold = IdlePoint
    /\ ja = Idle
    /\ mi = 0
    /\ um = ZERO
    /\ un = 0
    /\ buf = <<>>
    /\ pw = Idle
    /\ claim = Idle
    /\ witness = Idle
    /\ tt = Idle

\* self.mul_full(rhs)
MulFull ==
    /\ pc = "mul"
    /\ uout' = mul_full(ua, ub)
    /\ pc' = "mul_full_ret"
    /\ UNCHANGED <<claim, witness, tt, um, un, buf, pw, ua, ub, dstr, dout, ir, jp, jq, jold, ja, mi>>

\* self * rhs
MulAssign ==
    /\ pc = "mul"
    /\ uout' = mul_assign(ua, ub)
    /\ pc' = "mul_assign_ret"
    /\ UNCHANGED <<claim, witness, tt, um, un, buf, pw, ua, ub, dstr, dout, ir, jp, jq, jold, ja, mi>>

\* self.sqr_full()
SqrFull ==
    /\ pc = "mul"
    /\ uout' = sqr_full(ua)
    /\ pc' = "sqr_full_ret"
    /\ UNCHANGED <<claim, witness, tt, um, un, buf, pw, ua, ub, dstr, dout, ir, jp, jq, jold, ja, mi>>

NextMulFull == MulFull \/ MulAssign \/ SqrFull

SpecMulFull == InitMulFull /\ [][NextMulFull]_vars

\* the limbs of a U256, least significant first
LimbsOf(x) == <<x.c0, x.c1, x.c2, x.c3>>

\* the sum of the limb products x[i] * y[j] with i + j = k (limbs counted from 0)
ColumnSum(x, y, k) ==
    LET Term(i) == IF k - i \in 0 .. 3 THEN x[i + 1] * y[k - i + 1] ELSE 0
    IN Term(0) + Term(1) + Term(2) + Term(3)

\* the limbs k .. 7 of the exact product of x and y, given the carry into limb k
RECURSIVE ProductFrom(_, _, _, _)
ProductFrom(x, y, k, carry) ==
    IF k = 8 THEN <<>>
    ELSE LET t == ColumnSum(x, y, k) + carry
         IN <<t % Base>> \o ProductFrom(x, y, k + 1, t \div Base)

\* the eight limbs of the integer a * b
ExactProduct(a, b) == ProductFrom(LimbsOf(a), LimbsOf(b), 0, 0)

\* C11: mul_full(a, b) = (lo, hi) with lo + hi * 2^256 = a * b exactly, and
\* the wrapping product a * b is lo.
C11_MulFull ==
    /\ pc = "mul_full_ret" =>
        /\ LimbsOf(uout[1]) \o LimbsOf(uout[2]) = ExactProduct(ua, ub)
        /\ (ua.c2 = 0 /\ ua.c3 = 0 /\ ub.c2 = 0 /\ ub.c3 = 0) =>
                (Val(uout[1]) = Val(ua) * Val(ub) /\ uout[2] = ZERO)
        /\ uout[1] = mul_assign(ua, ub)
    /\ pc = "mul_assign_ret" =>
        LimbsOf(uout) = SubSeq(ExactProduct(ua, ub), 1, 4)

\* a product with a nonzero top limb of the high half has been computed, and
\* a wrapping product that lost a nonzero high half
C11_Witness ==
    \/ pc = "mul_full_ret" /\ uout[2].c3 > 0 /\ uout[1].c0 > 0 /\ ua # ub
    \/ pc = "mul_assign_ret" /\ ExactProduct(ua, ub)[8] > 0 /\ uout # ZERO

\* C12: sqr_full(a) returns the pair mul_full(a, a) returns, carries into the
\* top limb included.
C12_SqrFull ==
    pc = "sqr_full_ret" =>
        /\ uout = mul_full(ua, ua)
        /\ LimbsOf(uout[1]) \o LimbsOf(uout[2]) = ExactProduct(ua, ua)

\* a square whose doubled off-diagonal part shifts a bit into the top limb
C12_Witness ==
    /\ pc = "sqr_full_ret"
    /\ uout[2].c3 >= Base \div 2
    /\ mac(mac(mac(0, ua.c0, ua.c3, 0)[2], ua.c1, ua.c3, 0)[2], ua.c2, ua.c3, 0)[2]
            >= Base \div 2

----------------------------------------------------------------------------
(* U256::mulmod *)

\* the reduction of the nine-limb numerator by the modulus: the dispatch on
\* the top nonzero limb of the modulus, and panic!() for zero
mulmod_reduce(numerator, modulus) ==
    IF modulus.c3 > 0 THEN
        LET nm == divrem_nbym(numerator,
                              <<modulus.c0, modulus.c1, modulus.c2, modulus.c3>>)
        IN Ok(from_limbs(nm[1], nm[2], nm[3], nm[4]))
    ELSE IF modulus.c2 > 0 THEN
        LET nm == divrem_nbym(numerator, <<modulus.c0, modulus.c1, modulus.c2>>)
        IN Ok(from_limbs(nm[1], nm[2], nm[3], 0))
    ELSE IF modulus.c1 > 0 THEN
        LET nm == divrem_nbym(numerator, <<modulus.c0, modulus.c1>>)
        IN Ok(from_limbs(nm[1], nm[2], 0, 0))
    ELSE IF modulus.c0 > 0 THEN
        Ok(from_limbs(divrem_nby1(numerator, modulus.c0).remainder, 0, 0, 0))
    ELSE Panic

\* a plausible slip: only the low half of the product is reduced
mulmod_low_half(x, rhs, modulus) ==
    CHOOSE r \in {mulmod_reduce(<<p[1].c0, p[1].c1, p[1].c2, p[1].c3, 0, 0, 0, 0, 0>>,
                                modulus) : p \in {mul_full(x, rhs)}} : TRUE

\* U256::mulmod: Ok(the value returned), or the panic!() of the last branch;
\* (lo, hi) is the one value mul_full returned
mulmod(x, rhs, modulus) ==
    CHOOSE r \in {mulmod_reduce(<<p[1].c0, p[1].c1, p[1].c2, p[1].c3,
                                  p[2].c0, p[2].c1, p[2].c2, p[2].c3, 0>>,
                                modulus) : p \in {mul_full(x, rhs)}} : TRUE

\* operands for the three-argument calls
LeftSample == {from_limbs(l0, l1, l1, l3) :
                    l0 \in EdgeLimb, l1 \in EdgeLimb, l3 \in EdgeLimb}

RightSample == {from_limbs(l0, l0, l3, l3) : l0 \in EdgeLimb, l3 \in EdgeLimb}

ModulusSample == EdgeU256 \cup {from_u64(v) : v \in Limb}

----------------------------------------------------------------------------
(* Specification of U256::mulmod *)

InitMulmod ==
    /\ pc = "mulmod"
    /\ ua \in LeftSample
    /\ ub \in RightSample
    /\ um \in ModulusSample
    /\ uout = Idle
    /\ dstr = <<>>
    /\ dout = Idle
    /\ ir = ZERO
    /\ jp = IdlePoint
    /\ jq = IdlePoint
    /\ jold = IdlePoint
    /\ ja = Idle
    /\ mi = 0
    /\ un = 0
    /\ buf = <<>>
    /\ pw = Idle
    /\ claim = Idle
    /\ witness = Idle
    /\ tt = Idle

\* self.mulmod(rhs, modulus) returns
Mulmod ==
    /\ pc = "mulmod"
    /\ mulmod(ua, ub, um).tag = "Ok"
    /\ uout' = mulmod(ua, ub, um)
    /\ pc' = "mulmod_ret"
    /\ UNCHANGED <<claim, witness, tt, um, un, buf, pw, ua, ub, dstr, dout, ir, jp, jq, jold, ja, mi>>

\* self.mulmod(rhs, modulus) reaches panic!()
MulmodPanic ==
    /\ pc = "mulmod"
    /\ mulmod(ua, ub, um).tag = "Panic"
    /\ uout' = Panic
    /\ pc' = "mulmod_panic"
    /\ UNCHANGED <<claim, witness, tt, um, un, buf, pw, ua, ub, dstr, dout, ir, jp, jq, jold, ja, mi>>

NextMulmod == Mulmod \/ MulmodPanic

SpecMulmod == InitMulmod /\ [][NextMulmod]_vars

\* C13: with m # 0, mulmod(a, b, m) returns (a * b) mod m of the full
\* product, below m, on each of the four paths; with m = 0 it panics.
C13_Mulmod ==
    /\ pc = "mulmod_ret" =>
        /\ um # ZERO
        /\ lt(uout.val, um)
        /\ Val(uout.val) = MulMod(Val(ua) % Val(um), Val(ub), Val(um))
    /\ pc = "mulmod_panic" => um = ZERO
    /\ pc # "mulmod" => (um = ZERO <=> pc = "mulmod_panic")

\* the three-limb path has reduced a product with a nonzero high half to a
\* nonzero residue
C13_Witness ==
    /\ pc = "mulmod_ret"
    /\ mul_full(ua, ub)[2].c3 > 0
    /\ uout.val # ZERO
    /\ um.c3 = 0 /\ um.c2 > 0

----------------------------------------------------------------------------
(* U256::divrem_u64 *)

\* utils::div_2_1(lo, hi, d): quotient (truncated to u64) and remainder of
\* the two-limb number hi * 2^64 + lo by d
div_2_1(lo, hi, d) ==
    LET n == hi * Base + lo IN <<(n \div d) % Base, n % d>>

\* a plausible slip: the remainder of limb c1 is not carried into limb c0
divrem_u64_lost_remainder(x, rhs) ==
    IF rhs = 0 THEN None
    ELSE LET d3 == div_2_1(x.c3, 0, rhs)
             d2 == div_2_1(x.c2, d3[2], rhs)
             d1 == div_2_1(x.c1, d2[2], rhs)
             d0 == div_2_1(x.c0, 0, rhs)
         IN Some(<<from_limbs(d0[1], d1[1], d2[1], d3[1]), d0[2]>>)

\* U256::divrem_u64: Option<(quotient, remainder)>, Knuth's algorithm S
divrem_u64(x, rhs) ==
    IF rhs = 0 THEN None
    ELSE LET d3 == div_2_1(x.c3, 0, rhs)
             d2 == div_2_1(x.c2, d3[2], rhs)
             d1 == div_2_1(x.c1, d2[2], rhs)
             d0 == div_2_1(x.c0, d1[2], rhs)
         IN Some(<<from_limbs(d0[1], d1[1], d2[1], d3[1]), d0[2]>>)

----------------------------------------------------------------------------
(* Specification of U256::divrem_u64 *)

InitDivremU64 ==
    /\ pc = "divrem_u64"
    /\ ua \in WideU256
    /\ un \in Limb
    /\ ub = ZERO
    /\ um = ZERO
    /\ uout = Idle
    /\ dstr = <<>>
    /\ dout = Idle
    /\ ir = ZERO
    /\ jp = IdlePoint
    /\ jq = IdlePoint
    /\ jold = IdlePoint
    /\ ja = Idle
    /\ mi = 0
    /\ buf = <<>>
    /\ pw = Idle
    /\ claim = Idle
    /\ witness = Idle
    /\ tt = Idle

\* if rhs == 0 { None }
DivremU64Zero ==
    /\ pc = "divrem_u64"
    /\ un = 0
    /\ uout' = divrem_u64(ua, un)
    /\ pc' = "divrem_u64_ret"
    /\ UNCHANGED <<claim, witness, tt, um, un, buf, pw, ua, ub, dstr, dout, ir, jp, jq, jold, ja, mi>>

\* else { four div_2_1 steps; Some((q, r)) }
DivremU64 ==
    /\ pc = "divrem_u64"
    /\ un # 0
    /\ uout' = divrem_u64(ua, un)
    /\ pc' = "divrem_u64_ret"
    /\ UNCHANGED <<claim, witness, tt, um, un, buf, pw, ua, ub, dstr, dout, ir, jp, jq, jold, ja, mi>>

NextDivremU64 == DivremU64Zero \/ DivremU64

SpecDivremU64 == InitDivremU64 /\ [][NextDivremU64]_vars

\* C14: divrem_u64(a, b) is None exactly for b = 0; otherwise Some((q, r))
\* with r < b and q * b + r = a.
C14_DivremU64 ==
    pc = "divrem_u64_ret" =>
        /\ (uout = None) <=> (un = 0)
        /\ uout # None =>
            /\ uout.val[2] < un
            /\ Val(uout.val[1]) * un + uout.val[2] = Val(ua)
            /\ add_assign(mul_assign(uout.val[1], from_u64(un)), from_u64(uout.val[2])) = ua

\* a four-limb value has been divided by a divisor above 1, leaving a
\* remainder and a quotient with a nonzero top limb
C14_Witness ==
    /\ pc = "divrem_u64_ret"
    /\ un > 1
    /\ uout # None
    /\ uout.val[2] > 0
    /\ uout.val[1].c3 > 0
    /\ uout.val[1].c0 > 0

----------------------------------------------------------------------------
(* impl ShlAssign<usize> and ShrAssign<usize> for U256; the limits 64, 128, *)
(* 192 and 256 of the code are 1, 2, 3 and 4 limb widths                    *)

\* a plausible slip: between 128 and 192 the bits of c0 that cross into c3 are
\* not or-ed in
shl_assign_lost_bits(x, rhs) ==
    IF rhs = 0 THEN x
    ELSE IF rhs < LimbBits THEN
        [c0 |-> shl64(x.c0, rhs),
         c1 |-> BitOr(shl64(x.c1, rhs), shr64(x.c0, LimbBits - rhs)),
         c2 |-> BitOr(shl64(x.c2, rhs), shr64(x.c1, LimbBits - rhs)),
         c3 |-> BitOr(shl64(x.c3, rhs), shr64(x.c2, LimbBits - rhs))]
    ELSE IF rhs = LimbBits THEN
        [c0 |-> 0, c1 |-> x.c0, c2 |-> x.c1, c3 |-> x.c2]
    ELSE IF rhs < 2 * LimbBits THEN
        [c0 |-> 0,
         c1 |-> shl64(x.c0, rhs - LimbBits),
         c2 |-> BitOr(shl64(x.c1, rhs - LimbBits), shr64(x.c0, 2 * LimbBits - rhs)),
         c3 |-> BitOr(shl64(x.c2, rhs - LimbBits), shr64(x.c1, 2 * LimbBits - rhs))]
    ELSE IF rhs = 2 * LimbBits THEN
        [c0 |-> 0, c1 |-> 0, c2 |-> x.c0, c3 |-> x.c1]
    ELSE IF rhs < 3 * LimbBits THEN
        [c0 |-> 0,
         c1 |-> 0,
         c2 |-> shl64(x.c0, rhs - 2 * LimbBits),
            c3 |-> shl64(x.c1, rhs - 2 * LimbBits)]
    ELSE IF rhs = 3 * LimbBits THEN
        [c0 |-> 0, c1 |-> 0, c2 |-> 0, c3 |-> x.c0]
    ELSE IF rhs < 4 * LimbBits THEN
        [c0 |-> 0, c1 |-> 0, c2 |-> 0, c3 |-> shl64(x.c0, rhs - 3 * LimbBits)]
    ELSE
        [c0 |-> 0, c1 |-> 0, c2 |-> 0, c3 |-> 0]

\* impl ShlAssign<usize> for U256
shl_assign(x, rhs) ==
    IF rhs = 0 THEN x
    ELSE IF rhs < LimbBits THEN
        [c0 |-> shl64(x.c0, rhs),
         c1 |-> BitOr(shl64(x.c1, rhs), shr64(x.c0, LimbBits - rhs)),
         c2 |-> BitOr(shl64(x.c2, rhs), shr64(x.c1, LimbBits - rhs)),
         c3 |-> BitOr(shl64(x.c3, rhs), shr64(x.c2, LimbBits - rhs))]
    ELSE IF rhs = LimbBits THEN
        [c0 |-> 0, c1 |-> x.c0, c2 |-> x.c1, c3 |-> x.c2]
    ELSE IF rhs < 2 * LimbBits THEN
        [c0 |-> 0,
         c1 |-> shl64(x.c0, rhs - LimbBits),
         c2 |-> BitOr(shl64(x.c1, rhs - LimbBits), shr64(x.c0, 2 * LimbBits - rhs)),
         c3 |-> BitOr(shl64(x.c2, rhs - LimbBits), shr64(x.c1, 2 * LimbBits - rhs))]
    ELSE IF rhs = 2 * LimbBits THEN
        [c0 |-> 0, c1 |-> 0, c2 |-> x.c0, c3 |-> x.c1]
    ELSE IF rhs < 3 * LimbBits THEN
        [c0 |-> 0,
         c1 |-> 0,
         c2 |-> shl64(x.c0, rhs - 2 * LimbBits),
            c3 |-> BitOr(shl64(x.c1, rhs - 2 * LimbBits), shr64(x.c0, 3 * LimbBits - rhs))]
    ELSE IF rhs = 3 * LimbBits THEN
        [c0 |-> 0, c1 |-> 0, c2 |-> 0, c3 |-> x.c0]
    ELSE IF rhs < 4 * LimbBits THEN
        [c0 |-> 0, c1 |-> 0, c2 |-> 0, c3 |-> shl64(x.c0, rhs - 3 * LimbBits)]
    ELSE
        [c0 |-> 0, c1 |-> 0, c2 |-> 0, c3 |-> 0]

\* impl ShrAssign<usize> for U256
shr_assign(x, rhs) ==
    IF rhs = 0 THEN x
    ELSE IF rhs < LimbBits THEN
        [c0 |-> BitOr(shr64(x.c0, rhs), shl64(x.c1, LimbBits - rhs)),
         c1 |-> BitOr(shr64(x.c1, rhs), shl64(x.c2, LimbBits - rhs)),
         c2 |-> BitOr(shr64(x.c2, rhs), shl64(x.c3, LimbBits - rhs)),
         c3 |-> shr64(x.c3, rhs)]
    ELSE IF rhs = LimbBits THEN
        [c0 |-> x.c1, c1 |-> x.c2, c2 |-> x.c3, c3 |-> 0]
    ELSE IF rhs < 2 * LimbBits THEN
        [c0 |-> BitOr(shr64(x.c1, rhs - LimbBits), shl64(x.c2, 2 * LimbBits - rhs)),
         c1 |-> BitOr(shr64(x.c2, rhs - LimbBits), shl64(x.c3, 2 * LimbBits - rhs)),
         c2 |-> shr64(x.c3, rhs - LimbBits),
         c3 |-> 0]
    ELSE IF rhs = 2 * LimbBits THEN
        [c0 |-> x.c2, c1 |-> x.c3, c2 |-> 0, c3 |-> 0]
    ELSE IF rhs < 3 * LimbBits THEN
        [c0 |-> BitOr(shr64(x.c2, rhs - 2 * LimbBits), shl64(x.c3, 3 * LimbBits - rhs)),
         c1 |-> shr64(x.c3, rhs - 2 * LimbBits),
         c2 |-> 0,
         c3 |-> 0]
    ELSE IF rhs = 3 * LimbBits THEN
        [c0 |-> x.c3, c1 |-> 0, c2 |-> 0, c3 |-> 0]
    ELSE IF rhs < 4 * LimbBits THEN
        [c0 |-> shr64(x.c3, rhs - 3 * LimbBits), c1 |-> 0, c2 |-> 0, c3 |-> 0]
    ELSE
        [c0 |-> 0, c1 |-> 0, c2 |-> 0, c3 |-> 0]

----------------------------------------------------------------------------
(* Specification of the shifts of U256 *)

InitShift ==
    /\ pc = "shift"
    /\ ua \in WideU256
    /\ un \in 0 .. 4 * LimbBits + MaxOverShift
    /\ ub = ZERO
    /\ um = ZERO
    /\ uout = Idle
    /\ dstr = <<>>
    /\ dout = Idle
    /\ ir = ZERO
    /\ jp = IdlePoint
    /\ jq = IdlePoint
    /\ jold = IdlePoint
    /\ ja = Idle
    /\ mi = 0
    /\ buf = <<>>
    /\ pw = Idle
    /\ claim = Idle
    /\ witness = Idle
    /\ tt = Idle

\* self << rhs
Shl ==
    /\ pc = "shift"
    /\ uout' = shl_assign(ua, un)
    /\ pc' = "shl_ret"
    /\ UNCHANGED <<claim, witness, tt, um, un, buf, pw, ua, ub, dstr, dout, ir, jp, jq, jold, ja, mi>>

\* self >> rhs
Shr ==
    /\ pc = "shift"
    /\ uout' = shr_assign(ua, un)
    /\ pc' = "shr_ret"
    /\ UNCHANGED <<claim, witness, tt, um, un, buf, pw, ua, ub, dstr, dout, ir, jp, jq, jold, ja, mi>>

NextShift == Shl \/ Shr

SpecShift == InitShift /\ [][NextShift]_vars

\* v doubled n times modulo 2^256
RECURSIVE DoubledMod(_, _)
DoubledMod(v, n) == IF n = 0 THEN v ELSE DoubledMod((2 * v) % TwoToBits, n - 1)

\* v halved n times, rounding down
RECURSIVE Halved(_, _)
Halved(v, n) == IF n = 0 THEN v ELSE Halved(v \div 2, n - 1)

\* C15: a << n is (a * 2^n) mod 2^256 and a >> n is floor(a / 2^n) for
\* 0 <= n < 256, whole-limb amounts and 0 included; both are 0 for n >= 256.
C15_Shifts ==
    /\ pc = "shl_ret" =>
        /\ Val(uout) = DoubledMod(Val(ua), un)
        /\ un >= 4 * LimbBits => uout = ZERO
    /\ pc = "shr_ret" =>
        /\ Val(uout) = Halved(Val(ua), un)
        /\ un < 4 * LimbBits => Val(uout) = Val(ua) \div (2 ^ un)
        /\ un >= 4 * LimbBits => uout = ZERO

\* a shift by two limbs and a fraction has moved bits of c0 into c3 (left),
\* or bits of c3 into c0 (right)
C15_Witness ==
    \/ /\ pc = "shl_ret"
       /\ un > 2 * LimbBits /\ un < 3 * LimbBits
       /\ uout.c3 % (2 ^ (un - 2 * LimbBits)) # 0
    \/ /\ pc = "shr_ret"
       /\ un > 2 * LimbBits /\ un < 3 * LimbBits
       /\ uout.c0 >= 2 ^ (3 * LimbBits - un)

----------------------------------------------------------------------------
(* Specification of the addition and subtraction of U256 *)

InitAddSub ==
    /\ pc = "addsub"
    /\ ua \in EdgeU256
    /\ ub \in EdgeU256
    /\ um = ZERO
    /\ un = 0
    /\ uout = Idle
    /\ dstr = <<>>
    /\ dout = Idle
    /\ ir = ZERO
    /\ jp = IdlePoint
    /\ jq = IdlePoint
    /\ jold = IdlePoint
    /\ ja = Idle
    /\ mi = 0
    /\ buf = <<>>
    /\ pw = Idle
    /\ claim = Idle
    /\ witness = Idle
    /\ tt = Idle

\* a + b
Add ==
    /\ pc = "addsub"
    /\ uout' = add_assign(ua, ub)
    /\ pc' = "add_ret"
    /\ UNCHANGED <<claim, witness, tt, um, un, buf, pw, ua, ub, dstr, dout, ir, jp, jq, jold, ja, mi>>

\* a - b
Sub ==
    /\ pc = "addsub"
    /\ uout' = sub_assign(ua, ub)
    /\ pc' = "sub_ret"
    /\ UNCHANGED <<claim, witness, tt, um, un, buf, pw, ua, ub, dstr, dout, ir, jp, jq, jold, ja, mi>>

\* (a + b) - b
SubBack ==
    /\ pc = "add_ret"
    /\ uout' = sub_assign(uout, ub)
    /\ pc' = "add_sub_ret"
    /\ UNCHANGED <<claim, witness, tt, um, un, buf, pw, ua, ub, dstr, dout, ir, jp, jq, jold, ja, mi>>

NextAddSub == Add \/ Sub \/ SubBack

SpecAddSub == InitAddSub /\ [][NextAddSub]_vars

\* C16: a + b and a - b are the sum and the difference modulo 2^256 (a < b
\* gives 2^256 + a - b), a + b = b + a, and (a + b) - b = a.
C16_AddSubWrap ==
    /\ pc = "add_ret" =>
        /\ Val(uout) = (Val(ua) + Val(ub)) % TwoToBits
        /\ uout = add_assign(ub, ua)
    /\ pc = "sub_ret" =>
        /\ Val(uout) = WrapMod(Val(ua) - Val(ub), TwoToBits)
        /\ lt(ua, ub) => Val(uout) = TwoToBits + Val(ua) - Val(ub)
    /\ pc = "add_sub_ret" => uout = ua

\* a sum that wrapped has been taken back, or a difference has borrowed
\* through every limb
C16_Witness ==
    \/ /\ pc = "add_sub_ret"
       /\ Val(ua) + Val(ub) >= TwoToBits
       /\ ua.c1 + ub.c1 >= Base
       /\ ua # ub
    \/ /\ pc = "sub_ret"
       /\ lt(ua, ub)
       /\ ua.c0 < ub.c0 /\ ua.c1 < ub.c1 /\ ua.c2 < ub.c2

----------------------------------------------------------------------------
(* U256::from_bytes_be and U256::to_bytes_be.  A u64 is 8 bytes of 8 bits;   *)
(* the scaled limb is LimbBytes bytes of ByteBits bits, and the buffer      *)
(* [u8; 32] is 4 * LimbBytes bytes                                          *)

\* bytes in a limb: the least number above 1 that divides the limb width
LimbBytes == CHOOSE k \in 2 .. LimbBits :
                LimbBits % k = 0 /\ \A j \in 2 .. (k - 1) : LimbBits % j # 0

ByteBits == LimbBits \div LimbBytes

ByteBase == 2 ^ ByteBits

BufLen == 4 * LimbBytes

\* u64::from_be_bytes: the first byte is the most significant
RECURSIVE from_be_bytes(_)
from_be_bytes(b) ==
    IF b = <<>> THEN 0
    ELSE from_be_bytes(SubSeq(b, 1, Len(b) - 1)) * ByteBase + b[Len(b)]

\* U256::from_bytes_be: c0 from the last eight bytes, c3 from the first eight
from_bytes_be(n) ==
    from_limbs(from_be_bytes(SubSeq(n, 3 * LimbBytes + 1, 4 * LimbBytes)),
               from_be_bytes(SubSeq(n, 2 * LimbBytes + 1, 3 * LimbBytes)),
               from_be_bytes(SubSeq(n, LimbBytes + 1, 2 * LimbBytes)),
               from_be_bytes(SubSeq(n, 1, LimbBytes)))

\* for i in (0..32).rev() { r[i] = n.c0 as u8; n >>= 8; }, from index i down
RECURSIVE to_bytes_loop(_, _, _)
to_bytes_loop(n, i, r) ==
    IF i < 0 THEN r
    ELSE to_bytes_loop(shr_assign(n, ByteBits), i - 1,
                       [r EXCEPT ![i + 1] = n.c0 % ByteBase])

\* the same loop without .rev(), from index i up
RECURSIVE to_bytes_loop_forward(_, _, _)
to_bytes_loop_forward(n, i, r) ==
    IF i >= BufLen THEN r
    ELSE to_bytes_loop_forward(shr_assign(n, ByteBits), i + 1,
                               [r EXCEPT ![i + 1] = n.c0 % ByteBase])

\* a plausible slip: the loop runs forward, so the bytes come out little-endian
to_bytes_be_forward(x) == to_bytes_loop_forward(x, 0, [i \in 1 .. BufLen |-> 0])

\* U256::to_bytes_be
to_bytes_be(x) == to_bytes_loop(x, BufLen - 1, [i \in 1 .. BufLen |-> 0])

\* the buffer of BufLen bytes that spells v, most significant byte first
RECURSIVE BytesOfNumber(_, _)
BytesOfNumber(v, k) ==
    IF k = 0 THEN <<>> ELSE BytesOfNumber(v \div ByteBase, k - 1) \o <<v % ByteBase>>

BufSample == {BytesOfNumber(Val(x), BufLen) : x \in WideU256}

----------------------------------------------------------------------------
(* Specification of the byte form of U256 *)

InitBytes ==
    /\ \/ pc = "to_bytes" /\ ua \in WideU256 /\ buf = <<>>
       \/ pc = "from_bytes" /\ ua = ZERO /\ buf \in BufSample
    /\ ub = ZERO
    /\ um = ZERO
    /\ un = 0
    /\ uout = Idle
    /\ dstr = <<>>
    /\ dout = Idle
    /\ ir = ZERO
    /\ jp = IdlePoint
    /\ jq = IdlePoint
    /\ jold = IdlePoint
    /\ ja = Idle
    /\ mi = 0
    /\ pw = Idle
    /\ claim = Idle
    /\ witness = Idle
    /\ tt = Idle

\* a.to_bytes_be()
ToBytesBe ==
    /\ pc = "to_bytes"
    /\ buf' = to_bytes_be(ua)
    /\ uout' = to_bytes_be(ua)
    /\ pc' = "to_bytes_ret"
    /\ UNCHANGED <<claim, witness, tt, um, un, pw, ua, ub, dstr, dout, ir, jp, jq, jold, ja, mi>>

\* U256::from_bytes_be(&a.to_bytes_be())
FromBytesBack ==
    /\ pc = "to_bytes_ret"
    /\ uout' = from_bytes_be(buf)
    /\ pc' = "to_from_ret"
    /\ UNCHANGED <<claim, witness, tt, um, un, buf, pw, ua, ub, dstr, dout, ir, jp, jq, jold, ja, mi>>

\* U256::from_bytes_be(&b)
FromBytesBe ==
    /\ pc = "from_bytes"
    /\ ua' = from_bytes_be(buf)
    /\ uout' = from_bytes_be(buf)
    /\ pc' = "from_bytes_ret"
    /\ UNCHANGED <<claim, witness, tt, um, un, buf, pw, ub, dstr, dout, ir, jp, jq, jold, ja, mi>>

\* U256::from_bytes_be(&b).to_bytes_be()
ToBytesBack ==
    /\ pc = "from_bytes_ret"
    /\ uout' = to_bytes_be(ua)
    /\ pc' = "from_to_ret"
    /\ UNCHANGED <<claim, witness, tt, um, un, buf, pw, ua, ub, dstr, dout, ir, jp, jq, jold, ja, mi>>

NextBytes == ToBytesBe \/ FromBytesBack \/ FromBytesBe \/ ToBytesBack

SpecBytes == InitBytes /\ [][NextBytes]_vars

\* the number a buffer spells, most significant byte first
RECURSIVE BigEndian(_)
BigEndian(b) ==
    IF b = <<>> THEN 0
    ELSE BigEndian(SubSeq(b, 1, Len(b) - 1)) * ByteBase + b[Len(b)]

\* C17: from_bytes_be(a.to_bytes_be()) = a and from_bytes_be(b).to_bytes_be()
\* = b; byte 0 is the top byte of c3 and byte 31 the low byte of c0.
C17_BytesRoundTrip ==
    /\ pc = "to_bytes_ret" =>
        /\ Len(buf) = BufLen
        /\ buf[1] = ua.c3 \div (ByteBase ^ (LimbBytes - 1))
        /\ buf[BufLen] = ua.c0 % ByteBase
        /\ BigEndian(buf) = Val(ua)
    /\ pc = "to_from_ret" => uout = ua
    /\ pc = "from_bytes_ret" =>
        /\ ua.c3 \div (ByteBase ^ (LimbBytes - 1)) = buf[1]
        /\ ua.c0 % ByteBase = buf[BufLen]
        /\ Val(ua) = BigEndian(buf)
    /\ pc = "from_to_ret" => uout = buf

\* a value whose first and last bytes differ and are nonzero has gone through
\* both conversions, in either order
C17_Witness ==
    \/ pc = "to_from_ret" /\ buf[1] # 0 /\ buf[BufLen] # 0 /\ buf[1] # buf[BufLen]
                          /\ buf[2] # buf[BufLen - 1]
    \/ pc = "from_to_ret" /\ buf[1] # 0 /\ buf[BufLen] # 0 /\ buf[1] # buf[BufLen]
                          /\ buf[2] # buf[BufLen - 1]

----------------------------------------------------------------------------
(* U256::pow, one action per loop iteration; the exponent is a u64 *)

\* the locals when the loop is entered
pow_begin(x, exponent) ==
    [result |-> ONE, remaining_exponent |-> exponent, square |-> x, iterations |-> 0]

\* a plausible slip: the square is taken before the result is multiplied
pow_step_square_first(l) ==
    LET sq == mul_assign(l.square, l.square) IN
    [result |-> IF l.remaining_exponent % 2 = 1
                THEN mul_assign(l.result, sq) ELSE l.result,
     remaining_exponent |-> shr64(l.remaining_exponent, 1),
     square |-> sq,
     iterations |-> l.iterations + 1]

\* the body of while remaining_exponent > 0
pow_step(l) ==
    [result |-> IF l.remaining_exponent % 2 = 1
                THEN mul_assign(l.result, l.square) ELSE l.result,
     remaining_exponent |-> shr64(l.remaining_exponent, 1),
     square |-> mul_assign(l.square, l.square),
     iterations |-> l.iterations + 1]

----------------------------------------------------------------------------
(* Specification of U256::pow *)

InitPow ==
    /\ pc = "pow"
    /\ ua \in WideU256 \cup {from_u64(v) : v \in Limb}
    /\ un \in Limb
    /\ pw = Idle
    /\ claim = Idle
    /\ witness = Idle
    /\ tt = Idle
    /\ ub = ZERO
    /\ um = ZERO
    /\ uout = Idle
    /\ dstr = <<>>
    /\ dout = Idle
    /\ ir = ZERO
    /\ jp = IdlePoint
    /\ jq = IdlePoint
    /\ jold = IdlePoint
    /\ ja = Idle
    /\ mi = 0
    /\ buf = <<>>

\* if self.is_zero() && (exponent == 0) { None }
PowNone ==
    /\ pc = "pow"
    /\ is_zero(ua) /\ un = 0
    /\ uout' = None
    /\ pc' = "pow_ret"
    /\ UNCHANGED <<claim, witness, tt, um, un, buf, pw, ua, ub, dstr, dout, ir, jp, jq, jold, ja, mi>>

\* else { let mut result = ONE; let mut remaining_exponent = exponent; ... }
PowBegin ==
    /\ pc = "pow"
    /\ ~(is_zero(ua) /\ un = 0)
    /\ pw' = pow_begin(ua, un)
    /\ pc' = "pow_loop"
    /\ UNCHANGED <<claim, witness, tt, um, un, buf, ua, ub, uout, dstr, dout, ir, jp, jq, jold, ja, mi>>

\* one iteration of while remaining_exponent > 0
PowStep ==
    /\ pc = "pow_loop"
    /\ pw.remaining_exponent > 0
    /\ pw' = pow_step(pw)
    /\ UNCHANGED <<claim, witness, tt, um, un, buf, pc, ua, ub, uout, dstr, dout, ir, jp, jq, jold, ja, mi>>

\* Some(result)
PowReturn ==
    /\ pc = "pow_loop"
    /\ pw.remaining_exponent = 0
    /\ uout' = Some(pw.result)
    /\ pc' = "pow_ret"
    /\ UNCHANGED <<claim, witness, tt, um, un, buf, pw, ua, ub, dstr, dout, ir, jp, jq, jold, ja, mi>>

NextPow == PowNone \/ PowBegin \/ PowStep \/ PowReturn

SpecPow == InitPow /\ [][NextPow]_vars

\* base multiplied by itself exponent times, modulo 2^256
RECURSIVE PowerMod(_, _)
PowerMod(base, exponent) ==
    IF exponent = 0 THEN 1
    ELSE LET rest == PowerMod(base, exponent - 1)
         IN IF rest = 0 THEN 0 ELSE MulMod(rest, base, TwoToBits)

\* C18: pow is None exactly for 0^0; otherwise Some(base^exp mod 2^256), so
\* Some(1) for exp = 0 and Some(0) for base = 0, exp > 0; the loop makes at
\* most 64 iterations (one per bit of the u64 exponent).
C18_Pow ==
    /\ pc = "pow_ret" =>
        /\ (uout = None) <=> (is_zero(ua) /\ un = 0)
        /\ uout # None =>
            /\ Val(uout.val) = PowerMod(Val(ua), un)
            /\ un = 0 => uout.val = ONE
            /\ (is_zero(ua) /\ un > 0) => uout.val = ZERO
    /\ pc = "pow_loop" =>
        /\ pw.iterations <= LimbBits
        /\ pw.iterations = LimbBits => pw.remaining_exponent = 0

\* a power with the top bit of the exponent set has been returned after as
\* many iterations as the exponent has bits, wrapped and not zero
C18_Witness ==
    /\ pc = "pow_ret"
    /\ uout # None
    /\ un >= Base \div 2
    /\ pw.iterations = LimbBits
    /\ uout.val.c3 > 0
    /\ Val(ua) > 2

----------------------------------------------------------------------------
(* U256::invmod.  The extended binary GCD (gcd::inv_mod) works on integers *)
(* here: u, v are the shrinking operands and ca * x + cb * y = u,           *)
(* cc * x + cd * y = v the cofactors                                        *)

\* halve u while it is even, keeping ca * x + cb * y = u
RECURSIVE HalveEven(_, _, _, _, _)
HalveEven(u, ca, cb, x, y) ==
    IF u % 2 = 1 THEN <<u, ca, cb>>
    ELSE IF ca % 2 = 0 /\ cb % 2 = 0
         THEN HalveEven(u \div 2, ca \div 2, cb \div 2, x, y)
         ELSE HalveEven(u \div 2, (ca + y) \div 2, (cb - x) \div 2, x, y)

\* the main loop: <<a, b, g>> with a * x + b * y = g = gcd(x, y), x or y odd
RECURSIVE BinaryLoop(_, _, _, _, _, _, _, _)
BinaryLoop(u, v, ca, cb, cc, cd, x, y) ==
    LET hu == HalveEven(u, ca, cb, x, y)
        hv == HalveEven(v, cc, cd, x, y)
    IN  IF hu[1] >= hv[1]
        THEN IF hu[1] - hv[1] = 0
             THEN <<hv[2], hv[3], hv[1]>>
             ELSE BinaryLoop(hu[1] - hv[1], hv[1],
                             hu[2] - hv[2], hu[3] - hv[3], hv[2], hv[3], x, y)
        ELSE BinaryLoop(hu[1], hv[1] - hu[1],
                        hu[2], hu[3], hv[2] - hu[2], hv[3] - hu[3], x, y)

\* gcd::inv_mod(modulus, num): Some(inverse of num modulo modulus), or None
\* if the two have a common factor
inv_mod(modulus, num) ==
    LET x == Val(num)
        y == Val(modulus)
    IN  IF x = 0 \/ y = 0
        THEN (IF x + y = 1 THEN Some(U256Of(x)) ELSE None)
        ELSE IF x % 2 = 0 /\ y % 2 = 0 THEN None
        ELSE LET r == BinaryLoop(x, y, 1, 0, 0, 1, x, y)
             IN IF r[3] = 1 THEN Some(U256Of(WrapMod(r[1], y))) ELSE None

\* a plausible slip: the two arguments are handed over in the order of the
\* call, not in the order inv_mod takes them
invmod_swapped(x, modulus) == inv_mod(x, modulus)

\* U256::invmod
invmod(x, modulus) == inv_mod(modulus, x)

\* small numbers, every one of them, and values with large limbs
GcdSample == {U256Of(v) : v \in 0 .. NumSpread} \cup LeftSample

----------------------------------------------------------------------------
(* Specification of U256::invmod *)

InitInvmod ==
    /\ pc = "invmod"
    /\ ua \in GcdSample
    /\ um \in GcdSample
    /\ ub = ZERO
    /\ un = 0
    /\ uout = Idle
    /\ dstr = <<>>
    /\ dout = Idle
    /\ ir = ZERO
    /\ jp = IdlePoint
    /\ jq = IdlePoint
    /\ jold = IdlePoint
    /\ ja = Idle
    /\ mi = 0
    /\ buf = <<>>
    /\ pw = Idle
    /\ claim = Idle
    /\ witness = Idle
    /\ tt = Idle

\* n.invmod(&m) returns None
InvmodNone ==
    /\ pc = "invmod"
    /\ invmod(ua, um) = None
    /\ uout' = None
    /\ pc' = "invmod_ret"
    /\ UNCHANGED <<claim, witness, tt, um, un, buf, pw, ua, ub, dstr, dout, ir, jp, jq, jold, ja, mi>>

\* n.invmod(&m) returns Some(i)
InvmodSome ==
    /\ pc = "invmod"
    /\ invmod(ua, um) # None
    /\ uout' = invmod(ua, um)
    /\ pc' = "invmod_ret"
    /\ UNCHANGED <<claim, witness, tt, um, un, buf, pw, ua, ub, dstr, dout, ir, jp, jq, jold, ja, mi>>

NextInvmod == InvmodNone \/ InvmodSome

SpecInvmod == InitInvmod /\ [][NextInvmod]_vars

\* the greatest common divisor, by Euclid's algorithm
RECURSIVE Gcd(_, _)
Gcd(x, y) == IF y = 0 THEN x ELSE Gcd(y, x % y)

\* x mod m, and x itself for m = 0
Residue(x, m) == IF m = 0 THEN x ELSE x % m

\* (n * i) mod m for the call that returned Some(i)
ProductResidue ==
    IF um = ZERO THEN Val(ua) * Val(uout.val)
    ELSE MulMod(Val(ua) % Val(um), Val(uout.val), Val(um))

\* C19 as stated: invmod(n, m) is None exactly if gcd(n, m) # 1, and if
\* gcd(n, m) = 1 it is Some(i) with (n * i) mod m = 1.
C19_Invmod ==
    pc = "invmod_ret" =>
        /\ (uout = None) <=> (Gcd(Val(ua), Val(um)) # 1)
        /\ uout # None => ProductResidue = 1

\* C19 as amended: invmod(n, m) is None exactly if gcd(n, m) # 1, and if
\* gcd(n, m) = 1 it is Some(i) with n * i congruent to 1 modulo m, that is
\* (n * i) mod m = 1 mod m.
C19_InvmodCongruent ==
    pc = "invmod_ret" =>
        /\ (uout = None) <=> (Gcd(Val(ua), Val(um)) # 1)
        /\ uout # None => ProductResidue = Residue(1, Val(um))

\* an inverse other than 1 has been returned for a number above an even
\* modulus with a nonzero top limb
C19_Witness ==
    /\ pc = "invmod_ret"
    /\ uout # None
    /\ uout.val # ONE
    /\ um.c3 > 0
    /\ is_even(um)
    /\ gt(ua, um)

----------------------------------------------------------------------------
(* Specification of the equality of Jacobian values: any triples, on the    *)
(* curve or not                                                             *)

\* the z coordinates of the right-hand side: zero, one, and both ends
ZSample == {0, 1, 2, MODULUS - 1}

InitEq ==
    /\ pc = "eq"
    /\ jp \in [x : FieldElement, y : FieldElement, z : FieldElement]
    /\ jq \in [x : FieldElement, y : FieldElement, z : ZSample]
    /\ jold = IdlePoint
    /\ ja = Idle
    /\ ua = ZERO
    /\ ub = ZERO
    /\ um = ZERO
    /\ un = 0
    /\ uout = Idle
    /\ dstr = <<>>
    /\ dout = Idle
    /\ ir = ZERO
    /\ mi = 0
    /\ buf = <<>>
    /\ pw = Idle
    /\ claim = Idle
    /\ witness = Idle
    /\ tt = Idle

\* self == rhs
JacobianEq ==
    /\ pc = "eq"
    /\ uout' = jacobian_eq(jp, jq)
    /\ pc' = "eq_ret"
    /\ UNCHANGED <<claim, witness, tt, um, un, buf, pw, ua, ub, dstr, dout, ir, jp, jq, jold, ja, mi>>

NextEq == JacobianEq

SpecEq == InitEq /\ [][NextEq]_vars

\* x1 / z1^2 = x2 / z2^2 and y1 / z1^3 = y2 / z2^3, cross-multiplied
SameRatios(j, k) ==
    /\ fe_mul(j.x, fe_square(k.z)) = fe_mul(k.x, fe_square(j.z))
    /\ fe_mul(j.y, fe_mul(k.z, fe_square(k.z))) = fe_mul(k.y, fe_mul(j.z, fe_square(j.z)))

\* C20: two triples with z = 0 are equal whatever x and y; a triple with
\* z = 0 never equals one with z # 0; triples with z # 0 are equal exactly
\* when x / z^2 and y / z^3 agree.
C20_JacobianEq ==
    pc = "eq_ret" =>
        /\ (jp.z = 0 /\ jq.z = 0) => uout
        /\ ((jp.z = 0) # (jq.z = 0)) => ~uout
        /\ (jp.z # 0 /\ jq.z # 0) => (uout <=> SameRatios(jp, jq))

\* two different triples of different nonzero z have compared equal
C20_Witness ==
    /\ pc = "eq_ret"
    /\ uout
    /\ jp.z # 0 /\ jq.z # 0 /\ jp.z # jq.z
    /\ jp.x # jq.x /\ jp.y # jq.y

----------------------------------------------------------------------------
(* pedersen_merkle::inputs: the Claim and its byte form *)

\* FieldElement::as_montgomery: the stored representation x * R mod p, where
\* R is 2 to the width of U256
as_montgomery(x) == U256Of((x * (TwoToBits % MODULUS)) % MODULUS)

\* usize::to_be_bytes: most significant byte first; usize is as wide as a limb
to_be_bytes(v) ==
    [i \in 1 .. LimbBytes |-> (v \div (ByteBase ^ (LimbBytes - i))) % ByteBase]

\* a plausible slip: the fields are written in the order the struct declares
\* them (path_length, leaf, root)
claim_to_bytes_leaf_first(c) ==
    to_be_bytes(c.path_length)
        \o to_bytes_be(as_montgomery(c.leaf))
        \o to_bytes_be(as_montgomery(c.root))

\* impl From<&Claim> for Vec<u8>: three extend_from_slice calls on an empty
\* vector
claim_to_bytes(c) ==
    to_be_bytes(c.path_length)
        \o to_bytes_be(as_montgomery(c.root))
        \o to_bytes_be(as_montgomery(c.leaf))

Claim(path_length, leaf, root) ==
    [path_length |-> path_length, leaf |-> leaf, root |-> root]

----------------------------------------------------------------------------
(* Specification of Vec::from(&claim) *)

InitClaim ==
    /\ pc = "claim_bytes"
    /\ claim \in {Claim(n, l, r) : n \in 0 .. UsizeMax,
                                   l \in FieldElement, r \in FieldElement}
    /\ witness = Idle
    /\ tt = Idle
    /\ ua = ZERO
    /\ ub = ZERO
    /\ um = ZERO
    /\ un = 0
    /\ buf = <<>>
    /\ uout = Idle
    /\ dstr = <<>>
    /\ dout = Idle
    /\ ir = ZERO
    /\ jp = IdlePoint
    /\ jq = IdlePoint
    /\ jold = IdlePoint
    /\ ja = Idle
    /\ mi = 0
    /\ pw = Idle

\* Vec::from(&claim)
ClaimToBytes ==
    /\ pc = "claim_bytes"
    /\ buf' = claim_to_bytes(claim)
    /\ pc' = "claim_bytes_ret"
    /\ UNCHANGED <<claim, witness, tt, um, un, pw, ua, ub, uout, dstr, dout,
                   ir, jp, jq, jold, ja, mi>>

NextClaim == ClaimToBytes

SpecClaim == InitClaim /\ [][NextClaim]_vars

\* C21: the bytes of a Claim are, in this order, path_length big-endian in
\* the width of usize, the Montgomery form of root big-endian in the width of
\* U256, and the Montgomery form of leaf likewise; nothing else is written.
C21_ClaimBytes ==
    pc = "claim_bytes_ret" =>
        /\ Len(buf) = LimbBytes + 2 * BufLen
        /\ \A i \in 1 .. Len(buf) : buf[i] \in 0 .. ByteBase - 1
        /\ BigEndian(SubSeq(buf, 1, LimbBytes)) = claim.path_length
        /\ \E m \in FieldElement :
            /\ (m - claim.root * TwoToBits) % MODULUS = 0
            /\ BigEndian(SubSeq(buf, LimbBytes + 1, LimbBytes + BufLen)) = m
        /\ \E m \in FieldElement :
            /\ (m - claim.leaf * TwoToBits) % MODULUS = 0
            /\ BigEndian(SubSeq(buf, LimbBytes + BufLen + 1,
                                LimbBytes + 2 * BufLen)) = m

\* a claim whose three fields are nonzero and pairwise told apart by their
\* bytes has been serialized
C21_Witness ==
    /\ pc = "claim_bytes_ret"
    /\ claim.path_length >= ByteBase
    /\ claim.root # 0
    /\ claim.leaf # 0
    /\ claim.root # claim.leaf
    /\ buf[1] # 0
    /\ buf[LimbBytes + BufLen] # buf[LimbBytes + 2 * BufLen]

----------------------------------------------------------------------------
(* U256 bit accessors, continued *)

\* U256::bits
bits(x) == 4 * LimbBits - leading_zeros(x)

\* u64::trailing_zeros
RECURSIVE u64_trailing_zeros(_)
u64_trailing_zeros(v) ==
    IF v = 0 THEN LimbBits
    ELSE IF v % 2 = 1 THEN 0
    ELSE 1 + u64_trailing_zeros(v \div 2)

\* a plausible slip: the offsets of the upper limbs are left out
trailing_zeros_no_offset(x) ==
    IF x.c0 > 0 THEN u64_trailing_zeros(x.c0)
    ELSE IF x.c1 > 0 THEN u64_trailing_zeros(x.c1)
    ELSE IF x.c2 > 0 THEN u64_trailing_zeros(x.c2)
    ELSE IF x.c3 > 0 THEN u64_trailing_zeros(x.c3)
    ELSE 4 * LimbBits

\* U256::trailing_zeros
trailing_zeros(x) ==
    IF x.c0 > 0 THEN u64_trailing_zeros(x.c0)
    ELSE IF x.c1 > 0 THEN LimbBits + u64_trailing_zeros(x.c1)
    ELSE IF x.c2 > 0 THEN 2 * LimbBits + u64_trailing_zeros(x.c2)
    ELSE IF x.c3 > 0 THEN 3 * LimbBits + u64_trailing_zeros(x.c3)
    ELSE 4 * LimbBits

----------------------------------------------------------------------------
(* Specification of the bit accessors *)

InitBits ==
    /\ pc = "bits"
    /\ ua \in WideU256
    /\ un \in 0 .. (4 * LimbBits + MaxOverShift)
    /\ ub = ZERO
    /\ um = ZERO
    /\ buf = <<>>
    /\ uout = Idle
    /\ dstr = <<>>
    /\ dout = Idle
    /\ ir = ZERO
    /\ jp = IdlePoint
    /\ jq = IdlePoint
    /\ jold = IdlePoint
    /\ ja = Idle
    /\ mi = 0
    /\ pw = Idle
    /\ claim = Idle
    /\ witness = Idle
    /\ tt = Idle

\* a.bits()
Bits ==
    /\ pc = "bits"
    /\ uout' = bits(ua)
    /\ pc' = "bits_ret"
    /\ UNCHANGED <<claim, witness, tt, um, un, buf, pw, ua, ub, dstr, dout,
                   ir, jp, jq, jold, ja, mi>>

\* a.msb(): the index, or the panic of the subtraction
Msb ==
    /\ pc = "bits"
    /\ \E n \in msb(ua) : uout' = n
    /\ pc' = "msb_ret"
    /\ UNCHANGED <<claim, witness, tt, um, un, buf, pw, ua, ub, dstr, dout,
                   ir, jp, jq, jold, ja, mi>>

\* a.bit(i)
Bit ==
    /\ pc = "bits"
    /\ uout' = bit(ua, un)
    /\ pc' = "bit_ret"
    /\ UNCHANGED <<claim, witness, tt, um, un, buf, pw, ua, ub, dstr, dout,
                   ir, jp, jq, jold, ja, mi>>

\* a.leading_zeros()
LeadingZeros ==
    /\ pc = "bits"
    /\ uout' = leading_zeros(ua)
    /\ pc' = "leading_zeros_ret"
    /\ UNCHANGED <<claim, witness, tt, um, un, buf, pw, ua, ub, dstr, dout,
                   ir, jp, jq, jold, ja, mi>>

\* a.trailing_zeros()
TrailingZeros ==
    /\ pc = "bits"
    /\ uout' = trailing_zeros(ua)
    /\ pc' = "trailing_zeros_ret"
    /\ UNCHANGED <<claim, witness, tt, um, un, buf, pw, ua, ub, dstr, dout,
                   ir, jp, jq, jold, ja, mi>>

NextBits == Bits \/ Msb \/ Bit \/ LeadingZeros \/ TrailingZeros

SpecBits == InitBits /\ [][NextBits]_vars

\* bit i of the number v
BitOf(v, i) == (v \div (2 ^ i)) % 2 = 1

\* C22: bit(i) is false from index 256 on and is the binary digit below it;
\* leading_zeros and trailing_zeros are 256 for zero; bits = 256 -
\* leading_zeros; for a nonzero value msb = 255 - leading_zeros is the index
\* of the highest set bit and trailing_zeros is the index of a set bit (the
\* lowest one).
C22_BitAccessors ==
    /\ pc = "bit_ret" =>
        /\ un >= 4 * LimbBits => uout = FALSE
        /\ un < 4 * LimbBits => uout = BitOf(Val(ua), un)
    /\ pc = "leading_zeros_ret" =>
        /\ ua = ZERO => uout = 4 * LimbBits
        /\ uout = 4 * LimbBits - BitLen(Val(ua))
    /\ pc = "trailing_zeros_ret" =>
        /\ ua = ZERO => uout = 4 * LimbBits
        /\ ua # ZERO =>
            /\ bit(ua, uout)
            /\ \A i \in 0 .. (uout - 1) : ~bit(ua, i)
    /\ pc = "bits_ret" =>
        /\ uout = 4 * LimbBits - leading_zeros(ua)
        /\ uout = BitLen(Val(ua))
    /\ (pc = "msb_ret" /\ ua # ZERO) =>
        /\ uout = Ok(4 * LimbBits - 1 - leading_zeros(ua))
        /\ bit(ua, uout.val)
        /\ \A i \in (uout.val + 1) .. (4 * LimbBits + MaxOverShift) : ~bit(ua, i)

\* the highest set bit of a value whose top limb is zero and whose lowest
\* limb is zero has been located
C22_Witness ==
    /\ pc = "msb_ret"
    /\ ua.c3 = 0
    /\ ua.c2 > 1
    /\ ua.c0 = 0
    /\ uout.tag = "Ok"
    /\ uout.val > 2 * LimbBits
    /\ trailing_zeros(ua) >= LimbBits

----------------------------------------------------------------------------
(* Doubling (C23) *)

\* the formulas dbl-2007-bl over the integers modulo the prime, with the
\* curve parameter alpha written out
Dbl2007bl(j) ==
    LET XX == (j.x * j.x) % MODULUS
        YY == (j.y * j.y) % MODULUS
        YYYY == (YY * YY) % MODULUS
        ZZ == (j.z * j.z) % MODULUS
        S == (2 * ((j.x + YY) * (j.x + YY) - XX - YYYY)) % MODULUS
        M == (3 * XX + ALPHA * ZZ * ZZ) % MODULUS
        T == (M * M - 2 * S) % MODULUS
    IN [x |-> T,
        y |-> (M * (S - T) - 8 * YYYY) % MODULUS,
        z |-> ((j.y + j.z) * (j.y + j.z) - YY - ZZ) % MODULUS]

\* C23: double_assign gives {1, 1, 0} when y = 0 and otherwise the result of
\* dbl-2007-bl with M = 3*XX + alpha*ZZ^2; for every input on the curve the
\* affine image of the result is the group double of the input's image.
C23_Double ==
    pc = "double" =>
        /\ jold.y = 0 => jp = Jacobian_ZERO
        /\ jold.y # 0 => jp = Dbl2007bl(jold)
        /\ affine_from(jp) = GroupAdd(affine_from(jold), affine_from(jold))

\* a point with z other than 0 and 1 and y other than 0 has been doubled into
\* a point other than the neutral one
C23_Witness ==
    /\ pc = "double"
    /\ jold.z > 1
    /\ jold.y # 0
    /\ jp.z > 1
    /\ affine_from(jp) # affine_from(jold)

----------------------------------------------------------------------------
(* Mixed addition against the general addition (C24) *)

\* C24: for every Jacobian J and every affine A of the curve (A = Zero, J
\* neutral, A the point J stands for, and A its negation included), the mixed
\* addition J += A yields a point equal to J += Jacobian::from(A).
C24_MixedIsSpecialization ==
    pc = "add_affine" =>
        jacobian_eq(jp, add_assign_jacobian(jold, jacobian_from(ja)))

----------------------------------------------------------------------------
(* Neutral and inverse laws of the general addition (C25) *)

\* C25: for every Jacobian P of the curve and every neutral O (z = 0):
\* P + O = P, O + P = P, the double of O has z = 0, and P + (-P) is the
\* neutral element, -P being P with y negated (or any other triple that
\* stands for the same point).
C25_NeutralInverse ==
    /\ (pc = "add_jacobian" /\ jq.z = 0) => jacobian_eq(jp, jold)
    /\ (pc = "add_jacobian" /\ jold.z = 0) => jacobian_eq(jp, jq)
    /\ (pc = "add_jacobian" /\ jq = neg_assign(jold)) => jp.z = 0
    /\ (pc = "add_jacobian" /\ jacobian_eq(jq, neg_assign(jold))) =>
            jacobian_eq(jp, Jacobian_ZERO)
    /\ (pc = "double" /\ jold.z = 0) => jp.z = 0

\* a point with z other than 0 and 1 and y other than 0 has been added to
\* another representation of its negation
C25_Witness ==
    /\ pc = "add_jacobian"
    /\ jold.z > 1
    /\ jold.y # 0
    /\ jq.z > 1
    /\ jq.z # jold.z
    /\ jacobian_eq(jq, neg_assign(jold))
    /\ jp.z = 0

----------------------------------------------------------------------------
(* Closure of the curve under the accumulator operations (C26) *)

\* the curve equation in Jacobian coordinates, without any division:
\* y^2 = x^3 + alpha * x * z^4 + beta * z^6 modulo the prime
HomogeneousOnCurve(j) ==
    LET z2 == (j.z * j.z) % MODULUS
        z4 == (z2 * z2) % MODULUS
        z6 == (z4 * z2) % MODULUS
        x3 == (((j.x * j.x) % MODULUS) * j.x) % MODULUS
    IN (j.y * j.y - x3 - ALPHA * j.x * z4 - BETA * z6) % MODULUS = 0

\* C26: after any sequence of double_assign, neg_assign, += Jacobian,
\* += Affine and -= Affine on points of the curve, the accumulator is neutral
\* (z = 0) or its affine image (x/z^2, y/z^3) satisfies
\* y^2 = x^3 + alpha*x + beta.
C26_OnCurveClosure ==
    /\ jp.x \in FieldElement /\ jp.y \in FieldElement /\ jp.z \in FieldElement
    /\ jp.z = 0 \/ HomogeneousOnCurve(jp)
    /\ on_curve(jp)

\* the accumulator holds a point with z other than 0 and 1 after an affine
\* point was subtracted from another such point
C26_Witness ==
    /\ pc = "sub_affine"
    /\ ja # Zero
    /\ jold.z > 1
    /\ jp.z > 1
    /\ jp.z # jold.z
    /\ ~jacobian_eq(jp, jold)

----------------------------------------------------------------------------
(* pedersen_merkle::trace_table *)

\* the longest Merkle path of the model
MaxPathLength == 2

\* rows of one hash: 256, the width of U256
BlockRows == 4 * LimbBits

\* the offset of the points of the right operand in PEDERSEN_POINTS (252)
RightPointsOffset == 4 * LimbBits - 4

\* U256::from(&FieldElement): the value in external form
u256_from_field(x) == U256Of(x)

\* FieldElement::from(U256): reduction modulo the prime
field_from_u256(u) == Val(u) % MODULUS

\* the points of the curve other than Zero, as numbers x * p + y
PointKeys ==
    {k \in 0 .. (MODULUS * MODULUS - 1) :
        affine_on_curve(Point(k \div MODULUS, k % MODULUS))}

\* pedersen_points::PEDERSEN_POINTS[i]: a fixed table of points of the curve,
\* here the points in the order of (x, y), repeated
PEDERSEN_POINTS(i) ==
    LET k == CHOOSE k \in PointKeys :
                Cardinality({m \in PointKeys : m < k}) = i % Cardinality(PointKeys)
    IN Point(k \div MODULUS, k % MODULUS)

\* pedersen_points::SHIFT_POINT
SHIFT_POINT == PEDERSEN_POINTS(0)

\* impl AddAssign<&Affine> for Affine: the group law on affine points
affine_add_assign(p, q) ==
    IF p = Zero THEN q
    ELSE IF q = Zero THEN p
    ELSE IF p.x = q.x THEN
        (IF p.y = q.y /\ p.y # 0
         THEN LET m == fe_div(fe_add(fe_triple(fe_square(p.x)), ALPHA), fe_double(p.y))
                  x3 == fe_sub(fe_square(m), fe_double(p.x))
              IN Point(x3, fe_sub(fe_mul(m, fe_sub(p.x, x3)), p.y))
         ELSE Zero)
    ELSE LET m == fe_div(fe_sub(p.y, q.y), fe_sub(p.x, q.x))
             x3 == fe_sub(fe_sub(fe_square(m), p.x), q.x)
         IN Point(x3, fe_sub(fe_mul(m, fe_sub(p.x, x3)), p.y))

\* impl Default for Subrow
Subrow_default == [source |-> ZERO, slope |-> 0, point |-> Point(0, 0)]

\* #[derive(Default)] struct Row
Row_default == [left |-> Subrow_default, right |-> Subrow_default]

\* get_coordinates: panics on Affine::Zero
get_coordinates(p) == IF p = Zero THEN Panic ELSE Ok(<<p.x, p.y>>)

\* get_slope: (y_1 - y_2) / (x_1 - x_2); the division panics on a zero
\* divisor
get_slope(p_1, p_2) ==
    IF get_coordinates(p_1) = Panic \/ get_coordinates(p_2) = Panic THEN Panic
    ELSE IF fe_inv(fe_sub(p_1.x, p_2.x)) = None THEN Panic
    ELSE Ok(fe_mul(fe_sub(p_1.y, p_2.y), fe_inv(fe_sub(p_1.x, p_2.x)).val))

\* initialize_hash
initialize_hash(left_source, right_source) ==
    [left |-> [Subrow_default EXCEPT !.source = left_source],
     right |-> [Subrow_default EXCEPT !.source = right_source,
                                      !.point = SHIFT_POINT]]

\* one side of hash_next_bit: if the bit of the old source is set, the slope
\* to the Pedersen point is recorded and the point is added
add_point_if(sub, isset, p) ==
    IF ~isset THEN Ok(sub)
    ELSE IF get_slope(sub.point, p) = Panic THEN Panic
    ELSE Ok([sub EXCEPT !.slope = get_slope(sub.point, p).val,
                        !.point = affine_add_assign(sub.point, p)])

\* a plausible slip: the bit is tested on the source after the shift
hash_next_bit_tests_shifted(row, bit_index) ==
    LET left0 == [source |-> shr_assign(row.left.source, 1), slope |-> 0,
                  point |-> row.right.point]
        left == add_point_if(left0, bit(left0.source, 0), PEDERSEN_POINTS(bit_index))
    IN  IF left = Panic THEN Panic
        ELSE LET right0 == [source |-> shr_assign(row.right.source, 1), slope |-> 0,
                            point |-> left.val.point]
                 right == add_point_if(right0, bit(right0.source, 0),
                                       PEDERSEN_POINTS(bit_index + RightPointsOffset))
             IN IF right = Panic THEN Panic
                ELSE Ok([left |-> left.val, right |-> right.val])

\* hash_next_bit
hash_next_bit(row, bit_index) ==
    LET left0 == [source |-> shr_assign(row.left.source, 1), slope |-> 0,
                  point |-> row.right.point]
        left == add_point_if(left0, bit(row.left.source, 0), PEDERSEN_POINTS(bit_index))
    IN  IF left = Panic THEN Panic
        ELSE LET right0 == [source |-> shr_assign(row.right.source, 1), slope |-> 0,
                            point |-> left.val.point]
                 right == add_point_if(right0, bit(row.right.source, 0),
                                       PEDERSEN_POINTS(bit_index + RightPointsOffset))
             IN IF right = Panic THEN Panic
                ELSE Ok([left |-> left.val, right |-> right.val])

\* the row of one iteration of get_trace_table: a fresh hash at the start of
\* a block, the next bit otherwise
loop_row(c, w, row, path_index, bit_index) ==
    IF bit_index % BlockRows = 0 THEN
        IF path_index >= Len(w.path) THEN Panic
        ELSE IF get_coordinates(row.right.point) = Panic THEN Panic
        ELSE IF path_index >= Len(w.directions) THEN Panic
        ELSE LET other_hash == u256_from_field(w.path[path_index + 1])
                 x == get_coordinates(row.right.point).val[1]
             IN IF w.directions[path_index + 1]
                THEN Ok(initialize_hash(other_hash, u256_from_field(x)))
                ELSE Ok(initialize_hash(u256_from_field(x), other_hash))
    ELSE hash_next_bit(row, bit_index)

\* the eight columns written for a row; reading the coordinates of Zero
\* panics
row_columns(row) ==
    IF get_coordinates(row.left.point) = Panic
       \/ get_coordinates(row.right.point) = Panic THEN Panic
    ELSE Ok(<<field_from_u256(row.left.source), row.left.slope,
              row.left.point.x, row.left.point.y,
              field_from_u256(row.right.source), row.right.slope,
              row.right.point.x, row.right.point.y>>)

\* TraceTable::new(rows, 8): a table of zeros
TraceTable_new(rows) == [r \in 0 .. rows - 1 |-> <<0, 0, 0, 0, 0, 0, 0, 0>>]

----------------------------------------------------------------------------
(* Specification of get_trace_table *)

Witness(directions, path) == [directions |-> directions, path |-> path]

\* the siblings of the sampled witnesses
PathSample == {1, 2, MODULUS - 1}

WitnessSample ==
    UNION {{Witness(d, p) : d \in [1 .. n -> BOOLEAN], p \in [1 .. n -> PathSample]} :
            n \in 0 .. MaxPathLength}

InitTrace ==
    /\ pc = "trace"
    /\ claim \in {Claim(n, l, 0) : n \in 0 .. MaxPathLength, l \in FieldElement}
    /\ witness \in WitnessSample
    /\ tt = Idle
    /\ ua = ZERO
    /\ ub = ZERO
    /\ um = ZERO
    /\ un = 0
    /\ buf = <<>>
    /\ uout = Idle
    /\ dstr = <<>>
    /\ dout = Idle
    /\ ir = ZERO
    /\ jp = IdlePoint
    /\ jq = IdlePoint
    /\ jold = IdlePoint
    /\ ja = Idle
    /\ mi = 0
    /\ pw = Idle

\* let mut trace = TraceTable::new(..); let mut row = Row::default();
\* row.right.point = Affine::Point { x: claim.leaf, y: ZERO };
TraceBegin ==
    /\ pc = "trace"
    /\ tt' = [path_index |-> 0,
              bit_index |-> 0,
              row |-> [Row_default EXCEPT !.right.point = Point(claim.leaf, 0)],
              trace |-> TraceTable_new(claim.path_length * BlockRows),
              log |-> <<>>]
    /\ pc' = "trace_loop"
    /\ UNCHANGED <<claim, witness, um, un, buf, pw, ua, ub, uout, dstr, dout,
                   ir, jp, jq, jold, ja, mi>>

\* one iteration of the inner loop: the row is computed and written to the
\* table at row_index = path_index * 256 + bit_index
TraceRow ==
    /\ pc = "trace_loop"
    /\ tt.path_index < claim.path_length
    /\ LET row == loop_row(claim, witness, tt.row, tt.path_index, tt.bit_index)
           row_index == tt.path_index * BlockRows + tt.bit_index
       IN /\ row # Panic
          /\ row_columns(row.val) # Panic
          /\ tt' = [path_index |-> IF tt.bit_index + 1 = BlockRows
                                   THEN tt.path_index + 1 ELSE tt.path_index,
                    bit_index |-> (tt.bit_index + 1) % BlockRows,
                    row |-> row.val,
                    trace |-> [tt.trace EXCEPT ![row_index] = row_columns(row.val).val],
                    log |-> Append(tt.log, row_index)]
    /\ pc' = "trace_loop"
    /\ UNCHANGED <<claim, witness, um, un, buf, pw, ua, ub, uout, dstr, dout,
                   ir, jp, jq, jold, ja, mi>>

\* an iteration that panics: an index past the witness, the coordinates of
\* Zero, or a slope between two points of equal x
TracePanic ==
    /\ pc = "trace_loop"
    /\ tt.path_index < claim.path_length
    /\ LET row == loop_row(claim, witness, tt.row, tt.path_index, tt.bit_index)
       IN \/ row = Panic
          \/ row # Panic /\ row_columns(row.val) = Panic
    /\ pc' = "trace_panic"
    /\ uout' = Panic
    /\ UNCHANGED <<claim, witness, tt, um, un, buf, pw, ua, ub, dstr, dout,
                   ir, jp, jq, jold, ja, mi>>

\* both loops are done: trace is returned
TraceReturn ==
    /\ pc = "trace_loop"
    /\ tt.path_index >= claim.path_length
    /\ pc' = "trace_ret"
    /\ uout' = tt.trace
    /\ UNCHANGED <<claim, witness, tt, um, un, buf, pw, ua, ub, dstr, dout,
                   ir, jp, jq, jold, ja, mi>>

NextTrace == TraceBegin \/ TraceRow \/ TracePanic \/ TraceReturn

SpecTrace == InitTrace /\ [][NextTrace]_vars

\* the columns of the table
LeftSource(t, r) == t[r][1]
LeftSlope(t, r) == t[r][2]
LeftPoint(t, r) == Point(t[r][3], t[r][4])
RightSource(t, r) == t[r][5]
RightSlope(t, r) == t[r][6]
RightPoint(t, r) == Point(t[r][7], t[r][8])

\* row r of the table starts the hash of level r \div 256: the sibling is the
\* left source and the running hash (the leaf at level 0, else x of the right
\* point of the row before) the right source if the direction is true, the
\* other way round if not; the right point is SHIFT_POINT
IsFirstRow(t, r) ==
    LET j == r \div BlockRows
        sibling == witness.path[j + 1]
        running == IF j = 0 THEN claim.leaf ELSE RightPoint(t, r - 1).x
    IN /\ witness.directions[j + 1] =>
            LeftSource(t, r) = sibling /\ RightSource(t, r) = running
       /\ ~witness.directions[j + 1] =>
            LeftSource(t, r) = running /\ RightSource(t, r) = sibling
       /\ LeftSlope(t, r) = 0 /\ RightSlope(t, r) = 0
       /\ LeftPoint(t, r) = Point(0, 0)
       /\ RightPoint(t, r) = SHIFT_POINT

\* row r of the table follows row r - 1 within a hash: both sources are
\* halved, the left point starts from the right point of the row before and
\* the right point from the left point, and a Pedersen point is added, and a
\* slope recorded, exactly on the side whose source was odd in the row before
IsNextRow(t, r) ==
    LET b == r % BlockRows
        pl == PEDERSEN_POINTS(b)
        pr == PEDERSEN_POINTS(b + RightPointsOffset)
    IN /\ LeftSource(t, r) = LeftSource(t, r - 1) \div 2
       /\ RightSource(t, r) = RightSource(t, r - 1) \div 2
       /\ IF LeftSource(t, r - 1) % 2 = 1
          THEN /\ LeftPoint(t, r) = GroupAdd(RightPoint(t, r - 1), pl)
               /\ fe_mul(LeftSlope(t, r), fe_sub(RightPoint(t, r - 1).x, pl.x))
                    = fe_sub(RightPoint(t, r - 1).y, pl.y)
          ELSE /\ LeftPoint(t, r) = RightPoint(t, r - 1)
               /\ LeftSlope(t, r) = 0
       /\ IF RightSource(t, r - 1) % 2 = 1
          THEN /\ RightPoint(t, r) = GroupAdd(LeftPoint(t, r), pr)
               /\ fe_mul(RightSlope(t, r), fe_sub(LeftPoint(t, r).x, pr.x))
                    = fe_sub(LeftPoint(t, r).y, pr.y)
          ELSE /\ RightPoint(t, r) = LeftPoint(t, r)
               /\ RightSlope(t, r) = 0

\* C27: in get_trace_table the rows are written once each, in increasing
\* order, and all path_length * 256 of them by the time it returns; row 0 of
\* each block of 256 comes from initialize_hash with the sibling and the
\* running hash as sources in the order the direction says, and each later
\* row has the sources of the row before shifted right by one bit, its left
\* point starting from the right point of the row before, with a Pedersen
\* point added and a slope recorded only where bit 0 of the source of the row
\* before is set.
C27_TraceRows ==
    pc \in {"trace_loop", "trace_ret"} =>
        /\ DOMAIN tt.trace = 0 .. (claim.path_length * BlockRows - 1)
        /\ Len(tt.log) <= claim.path_length * BlockRows
        /\ \A i \in 1 .. Len(tt.log) : tt.log[i] = i - 1
        /\ Len(tt.log) = tt.path_index * BlockRows + tt.bit_index
        /\ pc = "trace_ret" =>
            /\ Len(tt.log) = claim.path_length * BlockRows
            /\ uout = tt.trace
        /\ \A r \in DOMAIN tt.trace :
            IF r >= Len(tt.log) THEN tt.trace[r] = <<0, 0, 0, 0, 0, 0, 0, 0>>
            ELSE IF r % BlockRows = 0 THEN IsFirstRow(tt.trace, r)
            ELSE IsNextRow(tt.trace, r)

\* a table of two hashes, one in each direction, has been returned, with a
\* point added on both sides in the second hash
C27_Witness ==
    /\ pc = "trace_ret"
    /\ claim.path_length >= 2
    /\ witness.directions[1] # witness.directions[2]
    /\ \E r \in (BlockRows + 1) .. (2 * BlockRows - 1) : LeftSlope(tt.trace, r) # 0
    /\ \E r \in (BlockRows + 1) .. (2 * BlockRows - 1) : RightSlope(tt.trace, r) # 0
    /\ \E r \in (BlockRows + 2) .. (2 * BlockRows - 1) :
            LeftSource(tt.trace, r - 1) = 0 /\ RightSource(tt.trace, r - 1) = 0

====
